---------------------------- MODULE Spec2Model ----------------------------
(***************************************************************************)
(* A model of the habitat-modelling pipeline (inat_habitat_modeling):      *)
(*   - the occurrence fetcher        (pipe/fetch_and_merge_inat.py)        *)
(*   - the YAML loader               (utils/yaml_loader.py)                *)
(*   - the bootstrap                 (bootstrap.py, utils/region.py,       *)
(*                                    utils/gee_init.py)                   *)
(*   - the climatology consumers     (pipe/build_point_climatology_table,  *)
(*                                    pipe/make_prediction_map,            *)
(*                                    pipe/build_monthly_climatology_tiled)*)
(* Each part has its own specification over its own group of variables;    *)
(* the variables of the other parts stay at their idle value.              *)
(***************************************************************************)
EXTENDS Integers, Sequences, FiniteSets, TLC

VARIABLES
    \* ---- fetch_inat_species ----
    fpc,            \* position in fetch_inat_species: "idle", "loop", "ret", "done"
    page,           \* the loop variable of `for page in range(1, max_pages + 1)`
    all_results,    \* the list all_results
    httpLog,        \* every request issued so far: <<[page, status, results]>>
    slept,          \* time.sleep total, in tenths of a second
    table,          \* the DataFrame returned by parse_results (a sequence of rows)
    \* ---- load_yaml_config ----
    ypc,            \* position in load_yaml_config: "idle", "start", "merged", "loaded"
    default_doc,    \* yaml.safe_load of default.yaml (the entries of a mapping)
    local_file,     \* [exists, doc]: local.yaml and what yaml.safe_load gives for it
    merged_doc,     \* cfg after the deep_merge step, before resolve_placeholders
    cfg_doc,        \* cfg as load_yaml_config returns it
    \* ---- bootstrap.init ----
    bpc,            \* position in init: the function about to run, "raised", "done"
    verbose,        \* the verbose flag of init
    have_pyproj,    \* HAVE_PYPROJ of utils/region.py
    cfg_defaults,   \* cfg["defaults"]: [region, species]
    cfg_regions,    \* cfg["regions"]: region key -> reference to a region record
    heap,           \* the region records, by reference
    cfg_region,     \* cfg["region"]: a reference, NoRef while the key is not set
    cfg_selected_species, \* cfg["selected_species"]
    cfg_gee,        \* cfg["gee"]
    cfg_paths,      \* cfg["paths"]
    raised,         \* the exception that ended init, if any
    geeCalls,       \* the Earth Engine calls made so far: <<[call, ok]>>
    geeResult,      \* what initialize_gee returned: "none", "True", "False"
    returned,       \* init has returned cfg
    \* ---- climatology writer and its two consumers ----
    cpc,            \* "idle", "climatology" (the writer runs), "consumers"
    next_month,     \* the month of the next run of build_month_climatology_tiled
    raw_files,      \* raw/<region>/<region>_GEE_MONTHLY_<year>_<month>.tif: {[year, month]}
    ac_files,       \* processed/<region>/..._<year>_<month>_AUTOCORR.tif: {[year, month]}
    disk,           \* the CLIMATOLOGY files: path -> the bands of the raster
    input_csv,      \* the merged occurrence CSV: [exists, comma, ws]
    feature_table,  \* the CSV build_feature_table wrote: [state, columns]
    rasters,        \* what load_rasters returned to build_feature_table
    clim_rasters,   \* what load_climatology_rasters returned
    key_folder,     \* the directory <features_dir>/<target key> exists
    model,          \* what train_pilz_model saved: [state, feature_cols]
    prediction,     \* what build_prediction_map did: [state, feature_cols, matrix]
    \* ---- one pixel through the writer, the builder and the generator ----
    pxc,            \* position: "idle", "aggregate", "written"
    raw_nodata,     \* the nodata tag of the monthly composites: [declared, v]
    raw_stack,      \* the pixel in the composite of each year: <<[ndvi, ndwi]>>
    clim_pixel,     \* the bands of the climatology raster at the pixel
    sampled,        \* what sample_month read for a point: [state, vals]
    x_tile,         \* the row of X_tile of the pixel: [state, vals]
    \* ---- compute_local_moran_geary ----
    apc,            \* position: "idle", "call", "returned"
    arr,            \* the input raster, its pixels in row-major order
    moran,          \* the Moran output, pixel by pixel: "nan" or "value"
    geary,          \* the Geary output, pixel by pixel: "nan" or "value"
    divisions,      \* the divisions by global_std made: <<[expr, by_zero]>>
    \* ---- find_best_threshold (train_pilz_model.py) ----
    tpc,            \* find_best_threshold: "loop" or "returned"
    y_test,              \* the test samples: a sequence of [y_true, y_prob]
    t_i,            \* index of the next threshold of the grid
    best_thr,       \* best_thr, in units of 1/19900
    best_j,         \* best_j as the counts it was computed from
    \* ---- rename_to_new_convention.py ----
    rpc,            \* main: "loop" or "done"
    raw_dir,        \* the directory: a set of [name, content]
    tif_files,      \* the listed files still to visit
    initial_dir,    \* the directory as main found it
    overwritten,    \* the contents a rename has replaced
    \* ---- download_from_drive.py ----
    dpc,            \* get_drive_service: position in the function
    token_file,     \* token_drive.json
    creds_file,     \* credentials_drive.json: "missing", "ok" or "malformed"
    creds,          \* the local variable creds
    drive_events,   \* refreshes, consent flows and token writes, in order
    drive_error,    \* the exception that ended the call, if any
    token_at_call,  \* token_drive.json as the call found it
    \* ---- infer_semantics (global_surrogate.py, tree_explain.py) ----
    spc,            \* infer_semantics: "call" or "returned"
    feature_name,   \* the argument, a sequence of characters
    semantics,      \* the returned label, palette and range
    \* ---- tree_to_json (global_surrogate.py) ----
    jpc,            \* tree_to_json: "call" or "returned"
    tree,           \* the fitted tree_: feature, threshold, children_left, children_right, value
    tree_json,      \* the returned JSON tree
    \* ---- compute_local_moran_geary on a two-dimensional raster ----
    mpc,            \* the call on a grid: "call" or "returned"
    grid,           \* the raster: height, width and the value of every pixel
    grid_kind,      \* what the raster was drawn as: "checkerboard" or "smooth"
    window_size,    \* the argument window_size
    moran_sign,     \* the sign of the returned Moran value of every pixel, or "nan"
    \* ---- the global quantile map of spatial_trend_stats.process_tiles ----
    qpc,            \* position in process_tiles: "call", "quantiles", "done" or "error"
    trend_full,     \* the trend of every pixel: an integer or not finite
    valid_full,     \* the QA mask of every pixel
    q05,            \* twenty times the 5% quantile
    q95,            \* twenty times the 95% quantile
    quant_full,     \* the quantile map
    \* ---- viz.loader: the parsed surrogate tree and its features and labels ----
    vpc,            \* position: "call", "parsed" or "collected"
    surrogate,      \* the JSON document of the surrogate tree
    parsed_tree,         \* the Node / LeafNode objects built by _parse_node
    collected,      \* the pair returned by collect_features_and_labels
    \* ---- the tile loops of the climatology builder, the prediction map and the trend statistics ----
    lpc,            \* position in the tile loop: "loop" or "done"
    loop_kind,      \* "builder", "predict" or "trend"
    height,         \* the raster height
    width,          \* the raster width
    tile_size,      \* the tile size
    valid_px,       \* the pixels that pass the QA mask and have a finite trend
    pending,        \* the offsets of the tiles not yet processed
    dst,            \* the output raster, pixel by pixel
    written_by,     \* for every pixel the tiles that wrote it
    stray           \* the pixels outside the raster that a tile addressed

fetchVars == <<fpc, page, all_results, httpLog, slept, table>>
yamlVars == <<ypc, default_doc, local_file, merged_doc, cfg_doc>>

bootVars == <<bpc, verbose, have_pyproj, cfg_defaults, cfg_regions, heap, cfg_region,
              cfg_selected_species, cfg_gee, cfg_paths, raised, geeCalls, geeResult,
              returned>>

climVars == <<cpc, next_month, raw_files, ac_files, disk, input_csv, feature_table,
              rasters, clim_rasters, key_folder, model, prediction>>

pixelVars == <<pxc, raw_nodata, raw_stack, clim_pixel, sampled, x_tile>>

autocorrVars == <<apc, arr, moran, geary, divisions>>

thrVars == <<tpc, y_test, t_i, best_thr, best_j>>

renameVars == <<rpc, raw_dir, tif_files, initial_dir, overwritten>>

driveVars == <<dpc, token_file, creds_file, creds, drive_events, drive_error, token_at_call>>

semVars == <<spc, feature_name, semantics>>

treeVars == <<jpc, tree, tree_json>>

moranVars == <<mpc, grid, grid_kind, window_size, moran_sign>>

quantVars == <<qpc, trend_full, valid_full, q05, q95, quant_full>>

vizVars == <<vpc, surrogate, parsed_tree, collected>>

tileVars == <<lpc, loop_kind, height, width, tile_size, valid_px, pending, dst, written_by, stray>>

vars == <<fetchVars, yamlVars, bootVars, climVars, pixelVars, autocorrVars, thrVars, renameVars, driveVars, semVars, treeVars, moranVars, quantVars, vizVars, tileVars>>

\* what the actions of one part leave unchanged: the variables of the others
fetchFrame == <<yamlVars, bootVars, climVars, pixelVars, autocorrVars, thrVars, renameVars, driveVars, semVars, treeVars, moranVars, quantVars, vizVars, tileVars>>
yamlFrame == <<fetchVars, bootVars, climVars, pixelVars, autocorrVars, thrVars, renameVars, driveVars, semVars, treeVars, moranVars, quantVars, vizVars, tileVars>>
bootFrame == <<fetchVars, yamlVars, climVars, pixelVars, autocorrVars, thrVars, renameVars, driveVars, semVars, treeVars, moranVars, quantVars, vizVars, tileVars>>
climFrame == <<fetchVars, yamlVars, bootVars, pixelVars, autocorrVars, thrVars, renameVars, driveVars, semVars, treeVars, moranVars, quantVars, vizVars, tileVars>>
pixelFrame == <<fetchVars, yamlVars, bootVars, climVars, autocorrVars, thrVars, renameVars, driveVars, semVars, treeVars, moranVars, quantVars, vizVars, tileVars>>
autocorrFrame == <<fetchVars, yamlVars, bootVars, climVars, pixelVars, thrVars, renameVars, driveVars, semVars, treeVars, moranVars, quantVars, vizVars, tileVars>>
thrFrame == <<fetchVars, yamlVars, bootVars, climVars, pixelVars, autocorrVars, renameVars, driveVars, semVars, treeVars, moranVars, quantVars, vizVars, tileVars>>
renameFrame == <<fetchVars, yamlVars, bootVars, climVars, pixelVars, autocorrVars, thrVars, driveVars, semVars, treeVars, moranVars, quantVars, vizVars, tileVars>>
driveFrame == <<fetchVars, yamlVars, bootVars, climVars, pixelVars, autocorrVars, thrVars, renameVars, semVars, treeVars, moranVars, quantVars, vizVars, tileVars>>
semFrame == <<fetchVars, yamlVars, bootVars, climVars, pixelVars, autocorrVars, thrVars, renameVars, driveVars, treeVars, moranVars, quantVars, vizVars, tileVars>>
treeFrame == <<fetchVars, yamlVars, bootVars, climVars, pixelVars, autocorrVars, thrVars, renameVars, driveVars, semVars, moranVars, quantVars, vizVars, tileVars>>
moranFrame == <<fetchVars, yamlVars, bootVars, climVars, pixelVars, autocorrVars, thrVars, renameVars, driveVars, semVars, treeVars, quantVars, vizVars, tileVars>>
quantFrame == <<fetchVars, yamlVars, bootVars, climVars, pixelVars, autocorrVars, thrVars, renameVars, driveVars, semVars, treeVars, moranVars, vizVars, tileVars>>
vizFrame == <<fetchVars, yamlVars, bootVars, climVars, pixelVars, autocorrVars, thrVars, renameVars, driveVars, semVars, treeVars, moranVars, quantVars, tileVars>>
tileFrame == <<fetchVars, yamlVars, bootVars, climVars, pixelVars, autocorrVars, thrVars, renameVars, driveVars, semVars, treeVars, moranVars, quantVars, vizVars>>

(***************************************************************************)
(* Helpers on sequences                                                    *)
(***************************************************************************)
RECURSIVE SeqsUpTo(_, _)
SeqsUpTo(S, n) ==
    IF n = 0 THEN {<<>>}
    ELSE LET shorter == SeqsUpTo(S, n - 1)
         IN  shorter \cup {Append(s, x) : s \in shorter, x \in S}

RECURSIVE Flatten(_)
Flatten(ss) == IF ss = <<>> THEN <<>> ELSE Head(ss) \o Flatten(Tail(ss))

(***************************************************************************)
(* Idle values of each group of variables                                  *)
(***************************************************************************)
IdleFetch ==
    /\ fpc = "idle"
    /\ page = 0
    /\ all_results = <<>>
    /\ httpLog = <<>>
    /\ slept = 0
    /\ table = <<>>

IdleYaml ==
    /\ ypc = "idle"
    /\ default_doc = <<>>
    /\ local_file = [exists |-> FALSE, doc |-> <<>>]
    /\ merged_doc = <<>>
    /\ cfg_doc = <<>>

(***************************************************************************)
(* bootstrap.init: select_region, select_species, normalize_region,        *)
(* apply_species_paths, initialize_gee                                     *)
(*                                                                         *)
(* Region records are objects on a heap: cfg["regions"][key] and           *)
(* cfg["region"] are references to them.  A coordinate is a number, finite *)
(* or not (NaN, inf).                                                      *)
(***************************************************************************)
Num(x) == [fin |-> TRUE, v |-> x]
NaN == [fin |-> FALSE, v |-> 0]

\* region.get("bbox_wgs84"): None when the key is absent, else the list
NoBBox == [present |-> FALSE, vals |-> <<>>]
BBox(list) == [present |-> TRUE, vals |-> list]

BBoxValues ==
    { NoBBox,
      BBox(<<>>),
      BBox(<<Num(1), Num(2), Num(3)>>),
      BBox(<<Num(1), Num(2), Num(3), Num(4)>>),
      BBox(<<Num(3), Num(2), Num(1), Num(4)>>),
      BBox(<<Num(1), Num(2), Num(1), Num(4)>>),
      BBox(<<Num(1), NaN, Num(3), Num(4)>>),
      BBox(<<Num(1), Num(2), Num(3), Num(4), Num(5)>>) }

NoUtm == [state |-> "unset", vals |-> <<>>]
UtmNone == [state |-> "none", vals |-> <<>>]

RegionRecord(bbox, crs) == [bbox_wgs84 |-> bbox, utm_crs |-> crs, bbox_utm |-> NoUtm]

RegionKeys == {"berlin", "harz"}
SpeciesKeys == {"pilz"}
ObjOf(key) == IF key = "berlin" THEN 1 ELSE 2
NoRef == 0

\* cfg.get("defaults", {}).get(...): None, or the configured string
NoneKey == "<None>"
Falsy(key) == key = NoneKey \/ key = ""

DEFAULT_UTM == "EPSG:32633"

NoError == [by |-> "", type |-> "", kind |-> "", listed |-> {}]
Error(fn, type, kind, listed) == [by |-> fn, type |-> type, kind |-> kind, listed |-> listed]

NoGee == [project_id |-> "", crs |-> "", synced |-> FALSE,
          region_bbox |-> NoBBox, region_bbox_utm |-> NoUtm]

NoPaths == [base_data_dir |-> "/data", output_dir_species |-> <<>>,
            features_dir_species |-> <<>>, temp_dir_species |-> <<>>]

IdleBoot ==
    /\ bpc = "idle"
    /\ verbose = FALSE
    /\ have_pyproj = FALSE
    /\ cfg_defaults = [region |-> NoneKey, species |-> NoneKey]
    /\ cfg_regions = <<>>
    /\ heap = <<>>
    /\ cfg_region = NoRef
    /\ cfg_selected_species = NoneKey
    /\ cfg_gee = NoGee
    /\ cfg_paths = NoPaths
    /\ raised = NoError
    /\ geeCalls = <<>>
    /\ geeResult = "none"
    /\ returned = FALSE

\* a pandas table on disk or in memory: its state and its columns
NoTable == [state |-> "none", columns |-> <<>>]

\* the dict of a raster loader: month -> path
NoRasters == [state |-> "none", found |-> <<>>]

NoInput == [exists |-> FALSE, comma |-> <<>>, ws |-> <<>>]

\* no model file yet
NoModel == [state |-> "none", feature_cols |-> <<>>]

\* no run of the prediction-map generator yet
NoPrediction == [state |-> "none", feature_cols |-> <<>>, matrix |-> <<>>]

IdleClim ==
    /\ cpc = "idle"
    /\ next_month = 0
    /\ raw_files = {}
    /\ ac_files = {}
    /\ disk = <<>>
    /\ input_csv = NoInput
    /\ feature_table = NoTable
    /\ rasters = NoRasters
    /\ clim_rasters = NoRasters
    /\ key_folder = FALSE
    /\ model = NoModel
    /\ prediction = NoPrediction

\* nothing read yet
NoRow == [state |-> "none", vals |-> <<>>]

IdlePixel ==
    /\ pxc = "idle"
    /\ raw_nodata = [declared |-> FALSE, v |-> 0]
    /\ raw_stack = <<>>
    /\ clim_pixel = <<>>
    /\ sampled = NoRow
    /\ x_tile = NoRow

IdleAutocorr ==
    /\ apc = "idle"
    /\ arr = <<>>
    /\ moran = <<>>
    /\ geary = <<>>
    /\ divisions = <<>>

NoJ == [none |-> TRUE, tp |-> 0, tn |-> 0]

IdleThr ==
    /\ tpc = "idle"
    /\ y_test = <<>>
    /\ t_i = 0
    /\ best_thr = 0
    /\ best_j = NoJ

IdleRename ==
    /\ rpc = "idle"
    /\ raw_dir = {}
    /\ tif_files = {}
    /\ initial_dir = {}
    /\ overwritten = {}

NoCreds == [none |-> TRUE, token |-> FALSE, expired |-> FALSE, refresh_token |-> FALSE]

NoTokenFile == [exists |-> FALSE, parsable |-> FALSE, creds |-> NoCreds]

IdleDrive ==
    /\ dpc = "idle"
    /\ token_file = NoTokenFile
    /\ creds_file = "missing"
    /\ creds = NoCreds
    /\ drive_events = <<>>
    /\ drive_error = "none"
    /\ token_at_call = NoTokenFile

NoSemantics == [label |-> <<>>, palette |-> <<>>, range |-> <<>>]

IdleSem ==
    /\ spc = "idle"
    /\ feature_name = <<>>
    /\ semantics = NoSemantics

NoTree == [feature |-> <<>>, threshold |-> <<>>, children_left |-> <<>>,
           children_right |-> <<>>, value |-> <<>>]

NoJson == [none |-> TRUE]

IdleTree ==
    /\ jpc = "idle"
    /\ tree = NoTree
    /\ tree_json = NoJson

NoGrid == [h |-> 0, w |-> 0, x |-> <<>>]

IdleMoran ==
    /\ mpc = "idle"
    /\ grid = NoGrid
    /\ grid_kind = "none"
    /\ window_size = 0
    /\ moran_sign = <<>>

IdleQuant ==
    /\ qpc = "idle"
    /\ trend_full = <<>>
    /\ valid_full = <<>>
    /\ q05 = "none"
    /\ q95 = "none"
    /\ quant_full = <<>>

NoDoc == [leaf |-> -1, suit |-> -1]

NoCollected == [features |-> {}, labels |-> {}]

IdleViz ==
    /\ vpc = "idle"
    /\ surrogate = NoDoc
    /\ parsed_tree = NoDoc
    /\ collected = NoCollected

IdleTile ==
    /\ lpc = "idle"
    /\ loop_kind = "none"
    /\ height = 0
    /\ width = 0
    /\ tile_size = 0
    /\ valid_px = {}
    /\ pending = {}
    /\ dst = <<>>
    /\ written_by = <<>>
    /\ stray = {}

(***************************************************************************)
(* fetch_inat_species                                                      *)
(***************************************************************************)
\* max_pages of the modelled call (the parameter's default is 50).
MaxPages == 3
\* The longest page the modelled server returns (per_page is 200 in the code).
MaxPerPage == 2

RATE_LIMIT_SLEEP == 300
PAGE_SLEEP == 6

StatusCodes == {200, 429, 500}

\* Observations the server may return: one with an ISO date, one whose
\* observed_on cannot be parsed.
Observations ==
    { [id |-> 1, observed_on |-> [iso |-> TRUE,  year |-> 2021, month |-> 5]],
      [id |-> 2, observed_on |-> [iso |-> FALSE, year |-> 0,    month |-> 0]] }

PageResults == SeqsUpTo(Observations, MaxPerPage)

\* parse_results: one row per observation, in order; year and month come from
\* the date, and are None (none |-> TRUE) when the date does not parse.
parse_results(results, species_name) ==
    [i \in 1..Len(results) |->
        LET obs == results[i]
            dt  == obs.observed_on
        IN  [species |-> species_name,
             id      |-> obs.id,
             date    |-> obs.observed_on,
             year    |-> IF dt.iso THEN [none |-> FALSE, v |-> dt.year]
                                   ELSE [none |-> TRUE,  v |-> 0],
             month   |-> IF dt.iso THEN [none |-> FALSE, v |-> dt.month]
                                   ELSE [none |-> TRUE,  v |-> 0]]]

NextIterationSamePage ==
    /\ page' = page
    /\ fpc' = "loop"

\* The statement that ends one iteration of the for loop: the loop variable
\* moves to the next element of range(1, max_pages + 1), or the loop is over.
NextIteration ==
    /\ page' = page + 1
    /\ fpc' = IF page + 1 > MaxPages THEN "ret" ELSE "loop"

\* The body of the loop for one response of the server.
OnResponseDropsPartial(status, results) ==
    /\ httpLog' = Append(httpLog, [page |-> page, status |-> status, results |-> results])
    /\ IF status = 429
         THEN /\ slept' = slept + RATE_LIMIT_SLEEP
              /\ NextIteration
              /\ UNCHANGED all_results
         ELSE IF status # 200
         THEN /\ fpc' = "ret"
              /\ all_results' = <<>>
              /\ UNCHANGED <<page, slept>>
         ELSE IF results = <<>>
         THEN /\ fpc' = "ret"
              /\ UNCHANGED <<page, slept, all_results>>
         ELSE /\ all_results' = all_results \o results
              /\ slept' = slept + PAGE_SLEEP
              /\ NextIteration
    /\ UNCHANGED <<table, fetchFrame>>

OnResponse(status, results) ==
    /\ httpLog' = Append(httpLog, [page |-> page, status |-> status, results |-> results])
    /\ IF status = 429
         THEN /\ slept' = slept + RATE_LIMIT_SLEEP
              /\ NextIteration                      \* continue
              /\ UNCHANGED all_results
         ELSE IF status # 200
         THEN /\ fpc' = "ret"                       \* break
              /\ UNCHANGED <<page, slept, all_results>>
         ELSE IF results = <<>>
         THEN /\ fpc' = "ret"                       \* break
              /\ UNCHANGED <<page, slept, all_results>>
         ELSE /\ all_results' = all_results \o results
              /\ slept' = slept + PAGE_SLEEP
              /\ NextIteration
    /\ UNCHANGED <<table, fetchFrame>>

\* One iteration: requests.get for the current page, any answer of the server.
FetchPage ==
    /\ fpc = "loop"
    /\ \E status \in StatusCodes :
         \E results \in (IF status = 200 THEN PageResults ELSE {<<>>}) :
            OnResponse(status, results)

FetchReturn ==
    /\ fpc = "ret"
    /\ table' = parse_results(all_results, "target")
    /\ fpc' = "done"
    /\ UNCHANGED <<page, all_results, httpLog, slept, fetchFrame>>

InitFetch ==
    /\ fpc = "loop"
    /\ page = 1
    /\ all_results = <<>>
    /\ httpLog = <<>>
    /\ slept = 0
    /\ table = <<>>

NextFetch == FetchPage \/ FetchReturn

SpecFetchInit == InitFetch /\ IdleYaml /\ IdleBoot /\ IdleClim /\ IdlePixel /\ IdleAutocorr /\ IdleThr /\ IdleRename /\ IdleDrive /\ IdleSem /\ IdleTree /\ IdleMoran /\ IdleQuant /\ IdleViz /\ IdleTile

SpecFetch == SpecFetchInit /\ [][NextFetch]_vars

\* The results of the pages answered with status 200 among the entries e.
OkResults(entries) ==
    Flatten([i \in 1..Len(entries) |->
                IF entries[i].status = 200 THEN entries[i].results ELSE <<>>])

\* C1: a request answered with 429 is followed by a request for the same
\* page: the page number does not advance past a page answered with 429.
C1_SamePageAfter429 ==
    \A i \in 1..Len(httpLog) :
        httpLog[i].status = 429 =>
            /\ i < Len(httpLog) => httpLog[i + 1].page = httpLog[i].page
            /\ i = Len(httpLog) /\ fpc = "loop" => page = httpLog[i].page

\* C2: the first response that is neither 200 nor 429 is the last request,
\* and the returned table holds exactly the observations of the pages
\* received with status 200, each once and in order.
C2_ErrorEndsPaginationKeepsPartial ==
    /\ \A i \in 1..Len(httpLog) :
          httpLog[i].status \notin {200, 429} =>
              /\ i = Len(httpLog)
              /\ fpc \in {"ret", "done"}
    /\ fpc = "done" =>
          table = parse_results(OkResults(httpLog), "target")

C2_Witness ==
    /\ fpc = "done"
    /\ Len(httpLog) >= 2
    /\ httpLog[Len(httpLog)].status = 500
    /\ \E i \in 1..Len(httpLog) - 1 :
          httpLog[i].status = 200 /\ Len(httpLog[i].results) = 2
    /\ Len(table) >= 2

\* The interpreter runs the loop on: every iteration that can be taken is
\* taken eventually.
SpecFetchFair == SpecFetchInit /\ [][NextFetch]_vars /\ WF_vars(NextFetch)

\* C22: whatever the server answers, at most max_pages requests are issued
\* and the call returns.
C22_TerminatesWithinMaxPages ==
    [](Len(httpLog) <= MaxPages) /\ <>(fpc = "done")

\* the server answered every request with 429
C22_Witness ==
    /\ fpc = "done"
    /\ Len(httpLog) = MaxPages
    /\ \A i \in 1..Len(httpLog) : httpLog[i].status = 429

(***************************************************************************)
(* YAML documents                                                          *)
(*                                                                         *)
(* A value of a loaded document is a node; a mapping is the sequence of    *)
(* its entries in document order (a Python dict keeps insertion order).    *)
(* Strings and keys are sequences of characters.                           *)
(***************************************************************************)
PyNone == [kind |-> "null", i |-> 0, s |-> <<>>, items |-> <<>>]
PyInt(n) == [kind |-> "int", i |-> n, s |-> <<>>, items |-> <<>>]
Str(x) == [kind |-> "str", i |-> 0, s |-> x, items |-> <<>>]
Dict(entries) == [kind |-> "dict", i |-> 0, s |-> <<>>, items |-> entries]
List(elems) == [kind |-> "list", i |-> 0, s |-> <<>>, items |-> elems]
Entry(key, node) == [k |-> key, n |-> node]

IsDict(node) == node.kind = "dict"

\* k in d
HasKey(d, key) == \E j \in 1..Len(d) : d[j].k = key
\* d[k]
GetKey(d, key) == d[CHOOSE j \in 1..Len(d) : d[j].k = key].n
\* d[k] = node: an existing key keeps its place, a new key goes last
SetKey(d, key, node) ==
    IF HasKey(d, key)
      THEN [j \in 1..Len(d) |-> IF d[j].k = key THEN Entry(key, node) ELSE d[j]]
      ELSE Append(d, Entry(key, node))

(***************************************************************************)
(* deep_merge                                                              *)
(***************************************************************************)
RECURSIVE deep_mergeShallow(_, _)
deep_mergeShallow(a, b) ==
    IF b = <<>> THEN a
    ELSE deep_mergeShallow(SetKey(a, Head(b).k, Head(b).n), Tail(b))

RECURSIVE deep_merge(_, _)
deep_merge(a, b) ==
    IF b = <<>> THEN a
    ELSE LET key == Head(b).k
             v   == Head(b).n
             a1  == IF HasKey(a, key) /\ IsDict(GetKey(a, key)) /\ IsDict(v)
                      THEN SetKey(a, key, Dict(deep_merge(GetKey(a, key).items, v.items)))
                      ELSE SetKey(a, key, v)
         IN  deep_merge(a1, Tail(b))

(***************************************************************************)
(* Python string operations                                                *)
(***************************************************************************)
\* sub in s
RECURSIVE Contains(_, _)
Contains(s, sub) ==
    IF Len(s) < Len(sub) THEN FALSE
    ELSE IF SubSeq(s, 1, Len(sub)) = sub THEN TRUE
    ELSE Contains(Tail(s), sub)

\* s.replace(old, new): every non-overlapping occurrence, left to right
RECURSIVE Replace(_, _, _)
Replace(s, old, new) ==
    IF Len(s) < Len(old) THEN s
    ELSE IF SubSeq(s, 1, Len(old)) = old
      THEN new \o Replace(SubSeq(s, Len(old) + 1, Len(s)), old, new)
      ELSE <<Head(s)>> \o Replace(Tail(s), old, new)

\* s.split(sep) for a one-character separator
RECURSIVE Split(_, _)
Split(s, sep) ==
    IF \A j \in 1..Len(s) : s[j] # sep THEN <<s>>
    ELSE LET j == CHOOSE j \in 1..Len(s) :
                     s[j] = sep /\ \A h \in 1..(j - 1) : s[h] # sep
         IN  <<SubSeq(s, 1, j - 1)>> \o Split(SubSeq(s, j + 1, Len(s)), sep)

Digit(n) == <<"0", "1", "2", "3", "4", "5", "6", "7", "8", "9">>[n + 1]

\* str(n) for an int
RECURSIVE IntStr(_)
IntStr(n) ==
    IF n < 0 THEN <<"-">> \o IntStr(0 - n)
    ELSE IF n < 10 THEN <<Digit(n)>>
    ELSE IntStr(n \div 10) \o <<Digit(n % 10)>>

\* ", ".join(parts)
RECURSIVE JoinComma(_)
JoinComma(parts) ==
    IF parts = <<>> THEN <<>>
    ELSE IF Len(parts) = 1 THEN parts[1]
    ELSE parts[1] \o <<",", " ">> \o JoinComma(Tail(parts))

\* repr(value), for strings without quotes or backslashes
RECURSIVE PyRepr(_)
PyRepr(node) ==
    CASE node.kind = "null" -> <<"N", "o", "n", "e">>
      [] node.kind = "int"  -> IntStr(node.i)
      [] node.kind = "str"  -> <<"'">> \o node.s \o <<"'">>
      [] node.kind = "list" ->
            <<"[">> \o JoinComma([j \in 1..Len(node.items) |-> PyRepr(node.items[j])])
                    \o <<"]">>
      [] node.kind = "dict" ->
            <<"{">> \o JoinComma([j \in 1..Len(node.items) |->
                                    <<"'">> \o node.items[j].k \o <<"'", ":", " ">>
                                            \o PyRepr(node.items[j].n)])
                    \o <<"}">>

\* str(value)
PyStr(node) == IF node.kind = "str" THEN node.s ELSE PyRepr(node)

(***************************************************************************)
(* Placeholder resolution                                                  *)
(***************************************************************************)
\* _find_all_keys(d, prefix): the dotted paths of all keys, parents first
RECURSIVE find_all_keys(_, _)
find_all_keys(node, prefix) ==
    IF ~IsDict(node) THEN <<>>
    ELSE Flatten([j \in 1..Len(node.items) |->
            LET key  == node.items[j].k
                full == IF prefix # <<>> THEN prefix \o <<".">> \o key ELSE key
            IN  <<full>> \o find_all_keys(node.items[j].n, full)])

\* the loop of _get_by_path over the parts of the path
RECURSIVE WalkPath(_, _)
WalkPath(cur, parts) ==
    IF parts = <<>> THEN cur
    ELSE IF IsDict(cur) /\ HasKey(cur.items, Head(parts))
      THEN WalkPath(GetKey(cur.items, Head(parts)), Tail(parts))
      ELSE PyNone

\* _get_by_path(d, path)
get_by_path(d, path) == WalkPath(d, Split(path, "."))

Placeholder(key_path) == <<"$", "{">> \o key_path \o <<"}">>

\* the loop `for key_path in _find_all_keys(root)` on the string cfg
RECURSIVE SubstituteKeysEvenNull(_, _, _)
SubstituteKeysEvenNull(str, key_paths, root) ==
    IF key_paths = <<>> THEN str
    ELSE LET ph   == Placeholder(Head(key_paths))
             val  == get_by_path(root, Head(key_paths))
             str1 == IF Contains(str, ph) THEN Replace(str, ph, PyStr(val)) ELSE str
         IN  SubstituteKeysEvenNull(str1, Tail(key_paths), root)

RECURSIVE SubstituteKeys(_, _, _)
SubstituteKeys(str, key_paths, root) ==
    IF key_paths = <<>> THEN str
    ELSE LET ph   == Placeholder(Head(key_paths))
             val  == get_by_path(root, Head(key_paths))
             str1 == IF Contains(str, ph) /\ val # PyNone
                       THEN Replace(str, ph, PyStr(val))
                       ELSE str
         IN  SubstituteKeys(str1, Tail(key_paths), root)

\* resolve_placeholders(cfg, root)
RECURSIVE resolve_placeholders(_, _)
resolve_placeholders(node, root) ==
    CASE node.kind = "dict" ->
            Dict([j \in 1..Len(node.items) |->
                    Entry(node.items[j].k, resolve_placeholders(node.items[j].n, root))])
      [] node.kind = "list" ->
            List([j \in 1..Len(node.items) |-> resolve_placeholders(node.items[j], root)])
      [] node.kind = "str" /\ Contains(node.s, <<"$", "{">>) ->
            Str(SubstituteKeys(node.s, find_all_keys(root, <<>>), root))
      [] OTHER -> node

(***************************************************************************)
(* load_yaml_config                                                        *)
(***************************************************************************)
\* cfg = deep_merge(cfg, local) when local.yaml exists
MergeStep ==
    /\ ypc = "start"
    /\ merged_doc' = IF local_file.exists
                       THEN deep_merge(default_doc, local_file.doc)
                       ELSE default_doc
    /\ ypc' = "merged"
    /\ UNCHANGED <<default_doc, local_file, cfg_doc, yamlFrame>>

\* cfg = resolve_placeholders(cfg); return cfg
ResolveStep ==
    /\ ypc = "merged"
    /\ cfg_doc' = resolve_placeholders(Dict(merged_doc), Dict(merged_doc)).items
    /\ ypc' = "loaded"
    /\ UNCHANGED <<default_doc, local_file, merged_doc, yamlFrame>>

NextYaml == MergeStep \/ ResolveStep

(***************************************************************************)
(* Documents of the deep-merge specification                               *)
(***************************************************************************)
\* The deepest nesting of mappings in the modelled documents.
MaxDepth == 2

KeyA == <<"a">>
KeyB == <<"b">>
DefaultKeys == <<KeyA, KeyB>>
LocalKeys == <<KeyA>>

\* Every mapping whose keys are among ks (in that order) and whose values
\* are in V.
RECURSIVE EntriesOver(_, _)
EntriesOver(ks, V) ==
    IF ks = <<>> THEN {<<>>}
    ELSE LET rest == EntriesOver(Tail(ks), V)
         IN  rest \cup {<<Entry(Head(ks), v)>> \o r : v \in V, r \in rest}

\* Every mapping nested at most depth deep, with the one scalar scal.
RECURSIVE Docs(_, _, _)
Docs(depth, ks, scal) ==
    EntriesOver(ks, {scal} \cup (IF depth <= 1 THEN {}
                                 ELSE {Dict(d) : d \in Docs(depth - 1, ks, scal)}))

NoLocalFile == [exists |-> FALSE, doc |-> <<>>]

InitMerge ==
    /\ ypc = "start"
    /\ default_doc \in Docs(MaxDepth, DefaultKeys, PyInt(1))
    /\ local_file \in {NoLocalFile}
            \cup {[exists |-> TRUE, doc |-> d] : d \in Docs(MaxDepth, LocalKeys, PyInt(9))}
    /\ merged_doc = <<>>
    /\ cfg_doc = <<>>

SpecMergeInit == InitMerge /\ IdleFetch /\ IdleBoot /\ IdleClim /\ IdlePixel /\ IdleAutocorr /\ IdleThr /\ IdleRename /\ IdleDrive /\ IdleSem /\ IdleTree /\ IdleMoran /\ IdleQuant /\ IdleViz /\ IdleTile

SpecMerge == SpecMergeInit /\ [][NextYaml]_vars

Missing == [kind |-> "missing", i |-> 0, s |-> <<>>, items |-> <<>>]

\* The value at a path of keys, Missing when the path does not exist.
RECURSIVE ValueAt(_, _)
ValueAt(node, path) ==
    IF path = <<>> THEN node
    ELSE IF IsDict(node) /\ HasKey(node.items, Head(path))
      THEN ValueAt(GetKey(node.items, Head(path)), Tail(path))
      ELSE Missing

KeysOf(node) == {node.items[j].k : j \in 1..Len(node.items)}

AllPaths == SeqsUpTo({KeyA, KeyB}, MaxDepth) \ {<<>>}

\* local gives a value that is not a mapping to a proper prefix of path
ShadowedByLocal(path) ==
    \E n \in 1..(Len(path) - 1) :
        LET q == ValueAt(Dict(local_file.doc), SubSeq(path, 1, n))
        IN  q # Missing /\ ~IsDict(q)

MergeDone == ypc \in {"merged", "loaded"} /\ local_file.exists

\* C3 as stated: at every key path the merged document has the local value
\* when local defines the path and the default value otherwise; mappings
\* present in both are merged key by key.
C3_LocalElseDefaultAtEveryPath ==
    MergeDone =>
        \A p \in AllPaths :
            LET l == ValueAt(Dict(local_file.doc), p)
                d == ValueAt(Dict(default_doc), p)
                r == ValueAt(Dict(merged_doc), p)
            IN  /\ (l # Missing /\ ~(IsDict(l) /\ IsDict(d))) => r = l
                /\ (IsDict(l) /\ IsDict(d)) =>
                        IsDict(r) /\ KeysOf(r) = KeysOf(l) \cup KeysOf(d)
                /\ l = Missing => r = d

\* C3 amended: as stated, except that a default path below a key to which
\* local gives a non-mapping value is dropped with the mapping it replaces.
C3_LocalElseDefaultUnlessShadowed ==
    MergeDone =>
        \A p \in AllPaths :
            LET l == ValueAt(Dict(local_file.doc), p)
                d == ValueAt(Dict(default_doc), p)
                r == ValueAt(Dict(merged_doc), p)
            IN  /\ (l # Missing /\ ~(IsDict(l) /\ IsDict(d))) => r = l
                /\ (IsDict(l) /\ IsDict(d)) =>
                        IsDict(r) /\ KeysOf(r) = KeysOf(l) \cup KeysOf(d)
                /\ (l = Missing /\ ~ShadowedByLocal(p)) => r = d
                /\ (l = Missing /\ ShadowedByLocal(p)) => r = Missing

\* default {a: {a: 1, b: 1}} merged with local {a: {a: 9}} is {a: {a: 9, b: 1}}
C3_Witness ==
    /\ MergeDone
    /\ default_doc = <<Entry(KeyA, Dict(<<Entry(KeyA, PyInt(1)), Entry(KeyB, PyInt(1))>>))>>
    /\ local_file.doc = <<Entry(KeyA, Dict(<<Entry(KeyA, PyInt(9))>>))>>
    /\ merged_doc = <<Entry(KeyA, Dict(<<Entry(KeyA, PyInt(9)), Entry(KeyB, PyInt(1))>>))>>

(***************************************************************************)
(* Documents of the placeholder specification                              *)
(*                                                                         *)
(*   a: <va>                                                               *)
(*   p: {b: <vb>}                                                          *)
(*   t: <template>                                                         *)
(*   l: [<template>, 3]                                                    *)
(* with a before or after p, and an optional local.yaml overriding a.      *)
(***************************************************************************)
KeyP == <<"p">>
KeyT == <<"t">>
KeyL == <<"l">>
PathPB == <<"p", ".", "b">>
PathZZ == <<"z", "z">>
PathQR == <<"q", ".", "r">>

ValuesOfA ==
    { PyNone, PyInt(7), Str(<<"x">>), Str(Placeholder(PathPB)), Str(Placeholder(KeyA)) }

ValuesOfB ==
    { PyNone, PyInt(10), Str(<<"y">>), Str(Placeholder(KeyA)) }

Templates ==
    { <<"r", "a", "w">>,
      Placeholder(KeyA),
      Placeholder(KeyA) \o <<"/">> \o Placeholder(KeyA),
      Placeholder(PathPB) \o <<"-">> \o Placeholder(KeyA),
      Placeholder(PathZZ),
      Placeholder(PathZZ) \o Placeholder(KeyA) \o <<"/">> \o Placeholder(KeyA),
      Placeholder(PathQR) \o Placeholder(PathPB),
      Placeholder(KeyP),
      <<"$", "{", "a">>,
      <<"$">> \o Placeholder(KeyA),
      <<"$", "{">> \o Placeholder(KeyA) \o <<"}">> }

PlaceholderDoc(va, vb, tpl, aFirst) ==
    LET ea == <<Entry(KeyA, va)>>
        ep == <<Entry(KeyP, Dict(<<Entry(KeyB, vb)>>))>>
        et == <<Entry(KeyT, Str(tpl)), Entry(KeyL, List(<<Str(tpl), PyInt(3)>>))>>
    IN  IF aFirst THEN ea \o ep \o et ELSE ep \o et \o ea

LocalOverrides ==
    { NoLocalFile, [exists |-> TRUE, doc |-> <<Entry(KeyA, Str(<<"z">>))>>] }

InitPlaceholders ==
    /\ ypc = "start"
    /\ \E va \in ValuesOfA, vb \in ValuesOfB, tpl \in Templates, aFirst \in BOOLEAN :
          default_doc = PlaceholderDoc(va, vb, tpl, aFirst)
    /\ local_file \in LocalOverrides
    /\ merged_doc = <<>>
    /\ cfg_doc = <<>>

SpecPlaceholdersInit == InitPlaceholders /\ IdleFetch /\ IdleBoot /\ IdleClim /\ IdlePixel /\ IdleAutocorr /\ IdleThr /\ IdleRename /\ IdleDrive /\ IdleSem /\ IdleTree /\ IdleMoran /\ IdleQuant /\ IdleViz /\ IdleTile

SpecPlaceholders == SpecPlaceholdersInit /\ [][NextYaml]_vars

Range(seq) == {seq[j] : j \in 1..Len(seq)}

\* The string values of a document, in document order.
RECURSIVE StrLeaves(_)
StrLeaves(node) ==
    CASE node.kind = "str" -> <<node.s>>
      [] node.kind = "dict" ->
            Flatten([j \in 1..Len(node.items) |-> StrLeaves(node.items[j].n)])
      [] node.kind = "list" ->
            Flatten([j \in 1..Len(node.items) |-> StrLeaves(node.items[j])])
      [] OTHER -> <<>>

Root == Dict(merged_doc)

\* The key paths present in the document, and those holding a non-null value.
PresentKeys == Range(find_all_keys(Root, <<>>))
NonNullKeys == {k \in PresentKeys : get_by_path(Root, k) # PyNone}

SpecialChars == {"$", "{", "}"}

\* Index of the first "}" of s (0 when there is none).
FirstClose(s) ==
    IF \A j \in 1..Len(s) : s[j] # "}" THEN 0
    ELSE CHOOSE j \in 1..Len(s) : s[j] = "}" /\ \A h \in 1..(j - 1) : s[h] # "}"

\* s is plain text interleaved with placeholders "${key}".
RECURSIVE WellFormed(_)
WellFormed(s) ==
    IF s = <<>> THEN TRUE
    ELSE IF Head(s) = "$"
      THEN /\ Len(s) >= 2 /\ s[2] = "{"
           /\ FirstClose(s) > 2
           /\ \A j \in 3..(FirstClose(s) - 1) : s[j] \notin SpecialChars
           /\ WellFormed(SubSeq(s, FirstClose(s) + 1, Len(s)))
      ELSE Head(s) \notin SpecialChars /\ WellFormed(Tail(s))

\* A well-formed s with every placeholder whose key is in K replaced by the
\* text of the value at that key, and everything else kept as it is.
RECURSIVE Substituted(_, _)
Substituted(s, K) ==
    IF s = <<>> THEN <<>>
    ELSE IF Head(s) = "$"
      THEN LET j   == FirstClose(s)
               key == SubSeq(s, 3, j - 1)
           IN  (IF key \in K THEN PyStr(get_by_path(Root, key)) ELSE SubSeq(s, 1, j))
                   \o Substituted(SubSeq(s, j + 1, Len(s)), K)
      ELSE <<Head(s)>> \o Substituted(Tail(s), K)

\* s is well-formed and the values it refers to bring no "$" of their own.
Simple(s) ==
    /\ WellFormed(s)
    /\ \A k \in NonNullKeys :
          Contains(s, Placeholder(k)) => "$" \notin Range(PyStr(get_by_path(Root, k)))

Resolved == ypc = "loaded"

\* C4 as stated: every placeholder whose key path is present in the document
\* is replaced by the value found there, every other one is left unchanged.
C4_PresentKeysReplaced ==
    Resolved =>
        LET before == StrLeaves(Root)
            after  == StrLeaves(Dict(cfg_doc))
        IN  /\ Len(after) = Len(before)
            /\ \A j \in 1..Len(before) :
                  Simple(before[j]) => after[j] = Substituted(before[j], PresentKeys)

\* C4 amended: every placeholder whose key path holds a non-null value is
\* replaced by the text of that value; a placeholder whose key path is absent
\* or holds null is left unchanged, character for character.
C4_NonNullKeysReplaced ==
    Resolved =>
        LET before == StrLeaves(Root)
            after  == StrLeaves(Dict(cfg_doc))
        IN  /\ Len(after) = Len(before)
            /\ \A j \in 1..Len(before) :
                  /\ Simple(before[j]) => after[j] = Substituted(before[j], NonNullKeys)
                  /\ (\A k \in NonNullKeys : ~Contains(before[j], Placeholder(k)))
                        => after[j] = before[j]

\* "${zz}${a}/${a}" with a = 7 and no key zz has become "${zz}7/7".
C4_Witness ==
    /\ Resolved
    /\ KeyA \in NonNullKeys /\ PathZZ \notin PresentKeys
    /\ GetKey(merged_doc, KeyA) = PyInt(7)
    /\ GetKey(merged_doc, KeyT).s =
          Placeholder(PathZZ) \o Placeholder(KeyA) \o <<"/">> \o Placeholder(KeyA)
    /\ GetKey(cfg_doc, KeyT).s = Placeholder(PathZZ) \o <<"7", "/", "7">>

\* C27: after load_yaml_config no string value of the configuration holds a
\* placeholder whose key path has a non-null value in the document, also when
\* the placeholder came in with a substituted value.
C27_NoResolvablePlaceholderLeft ==
    Resolved =>
        \A leaf \in Range(StrLeaves(Dict(cfg_doc))) :
            \A k \in NonNullKeys : ~Contains(leaf, Placeholder(k))

(***************************************************************************)
(* bootstrap.init, from the loaded configuration on                        *)
(***************************************************************************)
\* The state right after load_yaml_config, for the configurations modelled.
InitBoot ==
    /\ bpc = "select_region"
    /\ verbose \in BOOLEAN
    /\ have_pyproj \in BOOLEAN
    /\ cfg_defaults \in [region  : {NoneKey, "", "berlin", "atlantis"},
                         species : {NoneKey, "pilz", "ghost"}]
    /\ \E keys \in {{}, {"berlin"}, RegionKeys} :
          cfg_regions = [key \in keys |-> ObjOf(key)]
    /\ \E bbox \in BBoxValues, crs \in {"", "EPSG:32632"} :
          heap = << RegionRecord(bbox, crs),
                    RegionRecord(BBox(<<Num(5), Num(6), Num(7), Num(8)>>), "") >>
    /\ cfg_region = NoRef
    /\ cfg_selected_species = NoneKey
    /\ cfg_gee \in {[NoGee EXCEPT !.project_id = p, !.crs = c] :
                        p \in {"", "proj"}, c \in {"", "EPSG:25833"}}
    /\ cfg_paths = NoPaths
    /\ raised = NoError
    /\ geeCalls = <<>>
    /\ geeResult = "none"
    /\ returned = FALSE

Raise(err) ==
    /\ raised' = err
    /\ bpc' = "raised"

\* select_region(cfg, verbose)
select_regionSilentOnUnknown ==
    /\ bpc = "select_region"
    /\ LET region_key  == cfg_defaults.region
           all_regions == cfg_regions
       IN  IF Falsy(region_key)
             THEN Raise(Error("select_region", "ValueError", "region_missing", {}))
                  /\ UNCHANGED cfg_region
           ELSE IF region_key \notin DOMAIN all_regions
             THEN /\ bpc' = "select_species"
                  /\ UNCHANGED <<cfg_region, raised>>
           ELSE /\ cfg_region' = all_regions[region_key]
                /\ IF verbose /\ ~heap[all_regions[region_key]].bbox_wgs84.present
                     THEN Raise(Error("select_region", "KeyError", "bbox_wgs84", {}))
                     ELSE bpc' = "select_species" /\ UNCHANGED raised
    /\ UNCHANGED <<verbose, have_pyproj, cfg_defaults, cfg_regions, heap,
                   cfg_selected_species, cfg_gee, cfg_paths, geeCalls, geeResult,
                   returned, bootFrame>>

select_region ==
    /\ bpc = "select_region"
    /\ LET region_key  == cfg_defaults.region
           all_regions == cfg_regions
       IN  IF Falsy(region_key)
             THEN Raise(Error("select_region", "ValueError", "region_missing", {}))
                  /\ UNCHANGED cfg_region
           ELSE IF region_key \notin DOMAIN all_regions
             THEN Raise(Error("select_region", "ValueError", "region_unknown",
                              DOMAIN all_regions))
                  /\ UNCHANGED cfg_region
           ELSE /\ cfg_region' = all_regions[region_key]
                \* the verbose print reads cfg['region']['bbox_wgs84']
                /\ IF verbose /\ ~heap[all_regions[region_key]].bbox_wgs84.present
                     THEN Raise(Error("select_region", "KeyError", "bbox_wgs84", {}))
                     ELSE bpc' = "select_species" /\ UNCHANGED raised
    /\ UNCHANGED <<verbose, have_pyproj, cfg_defaults, cfg_regions, heap,
                   cfg_selected_species, cfg_gee, cfg_paths, geeCalls, geeResult,
                   returned, bootFrame>>

\* select_species(cfg, verbose)
select_species ==
    /\ bpc = "select_species"
    /\ LET species_key == cfg_defaults.species
       IN  IF Falsy(species_key)
             THEN Raise(Error("select_species", "ValueError", "species_missing", {}))
                  /\ UNCHANGED cfg_selected_species
           ELSE IF species_key \notin SpeciesKeys
             THEN Raise(Error("select_species", "ValueError", "species_unknown",
                              SpeciesKeys))
                  /\ UNCHANGED cfg_selected_species
           ELSE /\ cfg_selected_species' = species_key
                /\ bpc' = "normalize_region"
                /\ UNCHANGED raised
    /\ UNCHANGED <<verbose, have_pyproj, cfg_defaults, cfg_regions, heap, cfg_region,
                   cfg_gee, cfg_paths, geeCalls, geeResult, returned,
                   bootFrame>>

\* trans.transform(lon, lat): the projected coordinate of one axis
Utm(crs, lon, lat, axis) == [crs |-> crs, lon |-> lon, lat |-> lat, axis |-> axis]

NormalizeWithOwnRecord(transform_ok) ==
    IF cfg_region = NoRef
      THEN /\ Raise(Error("normalize_region", "ValueError", "region_not_selected", {}))
           /\ UNCHANGED <<heap, cfg_gee>>
    ELSE LET region == heap[cfg_region]
             bbox   == region.bbox_wgs84
         IN  IF ~bbox.present \/ bbox.vals = <<>> \/ Len(bbox.vals) # 4
               THEN /\ Raise(Error("normalize_region", "ValueError", "invalid_bbox", {}))
                    /\ UNCHANGED <<heap, cfg_gee>>
             ELSE LET utm_crs == IF region.utm_crs # "" THEN region.utm_crs
                                 ELSE IF cfg_gee.crs # "" THEN cfg_gee.crs
                                 ELSE DEFAULT_UTM
                      b == bbox.vals
                      bbox_utm ==
                          IF have_pyproj /\ transform_ok
                            THEN [state |-> "value",
                                  vals |-> << Utm(utm_crs, b[1], b[2], "x"),
                                              Utm(utm_crs, b[1], b[2], "y"),
                                              Utm(utm_crs, b[3], b[4], "x"),
                                              Utm(utm_crs, b[3], b[4], "y") >>]
                            ELSE UtmNone
                  IN  /\ UNCHANGED heap
                      /\ cfg_gee' = [cfg_gee EXCEPT !.region_bbox = bbox,
                                                    !.region_bbox_utm = bbox_utm,
                                                    !.crs = utm_crs,
                                                    !.synced = TRUE]
                      /\ bpc' = "apply_species_paths"
                      /\ UNCHANGED raised

\* normalize_region(cfg, verbose); transform_ok: the pyproj calls do not raise
NormalizeWith(transform_ok) ==
    IF cfg_region = NoRef
      THEN /\ Raise(Error("normalize_region", "ValueError", "region_not_selected", {}))
           /\ UNCHANGED <<heap, cfg_gee>>
    ELSE LET region == heap[cfg_region]
             bbox   == region.bbox_wgs84
         IN  IF ~bbox.present \/ bbox.vals = <<>> \/ Len(bbox.vals) # 4
               THEN /\ Raise(Error("normalize_region", "ValueError", "invalid_bbox", {}))
                    /\ UNCHANGED <<heap, cfg_gee>>
             ELSE LET utm_crs == IF region.utm_crs # "" THEN region.utm_crs
                                 ELSE IF cfg_gee.crs # "" THEN cfg_gee.crs
                                 ELSE DEFAULT_UTM
                      b == bbox.vals
                      bbox_utm ==
                          IF have_pyproj /\ transform_ok
                            THEN [state |-> "value",
                                  vals |-> << Utm(utm_crs, b[1], b[2], "x"),
                                              Utm(utm_crs, b[1], b[2], "y"),
                                              Utm(utm_crs, b[3], b[4], "x"),
                                              Utm(utm_crs, b[3], b[4], "y") >>]
                            ELSE UtmNone
                  IN  /\ heap' = [heap EXCEPT ![cfg_region].utm_crs = utm_crs,
                                              ![cfg_region].bbox_utm = bbox_utm]
                      /\ cfg_gee' = [cfg_gee EXCEPT !.region_bbox = bbox,
                                                    !.region_bbox_utm = bbox_utm,
                                                    !.crs = utm_crs,
                                                    !.synced = TRUE]
                      /\ bpc' = "apply_species_paths"
                      /\ UNCHANGED raised

normalize_region ==
    /\ bpc = "normalize_region"
    /\ \E transform_ok \in (IF have_pyproj THEN BOOLEAN ELSE {FALSE}) :
          NormalizeWith(transform_ok)
    /\ UNCHANGED <<verbose, have_pyproj, cfg_defaults, cfg_regions, cfg_region,
                   cfg_selected_species, cfg_paths, geeCalls, geeResult, returned,
                   bootFrame>>

\* apply_species_paths(cfg, verbose), then the test of gee.project_id in init
apply_species_paths ==
    /\ bpc = "apply_species_paths"
    /\ LET base        == cfg_paths.base_data_dir
           species_key == cfg_defaults.species
       IN  cfg_paths' = [cfg_paths EXCEPT
                            !.output_dir_species   = <<base, "outputs", species_key>>,
                            !.features_dir_species = <<base, "features", species_key>>,
                            !.temp_dir_species     = <<base, "temp", species_key>>]
    /\ bpc' = IF cfg_gee.project_id # "" THEN "gee_probe" ELSE "return"
    /\ UNCHANGED <<verbose, have_pyproj, cfg_defaults, cfg_regions, heap, cfg_region,
                   cfg_selected_species, cfg_gee, raised, geeCalls, geeResult,
                   returned, bootFrame>>

(***************************************************************************)
(* initialize_gee: ok tells whether the call returns or raises             *)
(***************************************************************************)
GeeCall(name, ok) == geeCalls' = Append(geeCalls, [call |-> name, ok |-> ok])
GeeReturn(value) == geeResult' = value /\ bpc' = "return"

\* try: ee.Number(1).getInfo(); return True / except: pass
ProbeStage(ok) ==
    /\ GeeCall("probe", ok)
    /\ IF ok THEN GeeReturn("True")
             ELSE bpc' = "gee_initialize" /\ UNCHANGED geeResult

\* try: ee.Initialize(project=project_id); return True / except: ...
InitializeStageGivesUp(ok) ==
    /\ GeeCall("Initialize", ok)
    /\ IF ok THEN GeeReturn("True") ELSE GeeReturn("False")

InitializeStage(ok) ==
    /\ GeeCall("Initialize", ok)
    /\ IF ok THEN GeeReturn("True")
             ELSE bpc' = "gee_authenticate" /\ UNCHANGED geeResult

\* try: ee.Authenticate() ... except Exception: return False
AuthenticateStage(ok) ==
    /\ GeeCall("Authenticate", ok)
    /\ IF ok THEN bpc' = "gee_reinitialize" /\ UNCHANGED geeResult
             ELSE GeeReturn("False")

\* ... ee.Initialize(project=project_id); return True / except Exception: return False
ReinitializeStage(ok) ==
    /\ GeeCall("Initialize", ok)
    /\ IF ok THEN GeeReturn("True") ELSE GeeReturn("False")

geeFrame == <<verbose, have_pyproj, cfg_defaults, cfg_regions, heap, cfg_region,
              cfg_selected_species, cfg_gee, cfg_paths, raised, returned,
              bootFrame>>

GeeProbe ==
    bpc = "gee_probe" /\ (\E ok \in BOOLEAN : ProbeStage(ok)) /\ UNCHANGED geeFrame

GeeInitialize ==
    bpc = "gee_initialize" /\ (\E ok \in BOOLEAN : InitializeStage(ok))
        /\ UNCHANGED geeFrame

GeeAuthenticate ==
    bpc = "gee_authenticate" /\ (\E ok \in BOOLEAN : AuthenticateStage(ok))
        /\ UNCHANGED geeFrame

GeeReinitialize ==
    bpc = "gee_reinitialize" /\ (\E ok \in BOOLEAN : ReinitializeStage(ok))
        /\ UNCHANGED geeFrame

\* return cfg
BootReturn ==
    /\ bpc = "return"
    /\ returned' = TRUE
    /\ bpc' = "done"
    /\ UNCHANGED <<verbose, have_pyproj, cfg_defaults, cfg_regions, heap, cfg_region,
                   cfg_selected_species, cfg_gee, cfg_paths, raised, geeCalls,
                   geeResult, bootFrame>>

NextBoot ==
    \/ select_region
    \/ select_species
    \/ normalize_region
    \/ apply_species_paths
    \/ GeeProbe
    \/ GeeInitialize
    \/ GeeAuthenticate
    \/ GeeReinitialize
    \/ BootReturn

SpecBootInit == InitBoot /\ IdleFetch /\ IdleYaml /\ IdleClim /\ IdlePixel /\ IdleAutocorr /\ IdleThr /\ IdleRename /\ IdleDrive /\ IdleSem /\ IdleTree /\ IdleMoran /\ IdleQuant /\ IdleViz /\ IdleTile

SpecBoot == SpecBootInit /\ [][NextBoot]_vars

SelectRegionRan == bpc \notin {"idle", "select_region"}

\* C5: select_region raises a ValueError when defaults.region is absent and
\* when it names no key of regions (the error then lists the region keys);
\* in both cases cfg["region"] is not set; when it does not raise,
\* cfg["region"] is the record regions[defaults.region].
C5_SelectRegionErrorsAndResult ==
    SelectRegionRan =>
        LET key == cfg_defaults.region
        IN  /\ key = NoneKey =>
                  /\ raised = Error("select_region", "ValueError", "region_missing", {})
                  /\ cfg_region = NoRef
            /\ (~Falsy(key) /\ key \notin DOMAIN cfg_regions) =>
                  /\ raised = Error("select_region", "ValueError", "region_unknown",
                                    DOMAIN cfg_regions)
                  /\ cfg_region = NoRef
            /\ raised.by # "select_region" =>
                  /\ key \in DOMAIN cfg_regions
                  /\ cfg_region = cfg_regions[key]
                  /\ heap[cfg_region] = heap[cfg_regions[key]]

C5_Witness ==
    /\ bpc = "raised"
    /\ cfg_defaults.region = "atlantis"
    /\ raised.kind = "region_unknown"
    /\ raised.listed = RegionKeys
    /\ cfg_region = NoRef

NormalizeRegionRan ==
    /\ bpc \notin {"idle", "select_region", "select_species", "normalize_region"}
    /\ raised.by \notin {"select_region", "select_species"}

NormalizeRegionReturned == NormalizeRegionRan /\ raised.by # "normalize_region"

\* exactly 4 finite numbers, min < max on each axis
ValidBBox(bbox) ==
    /\ bbox.present
    /\ Len(bbox.vals) = 4
    /\ \A j \in 1..4 : bbox.vals[j].fin
    /\ bbox.vals[1].v < bbox.vals[3].v
    /\ bbox.vals[2].v < bbox.vals[4].v

\* C6: when normalize_region returns, region.bbox_wgs84 is 4 finite numbers
\* with min < max on each axis; with any other value it raises a ValueError.
C6_OnlyValidBBoxPasses ==
    /\ NormalizeRegionReturned => ValidBBox(heap[cfg_region].bbox_wgs84)
    /\ (NormalizeRegionRan /\ ~ValidBBox(heap[cfg_region].bbox_wgs84)) =>
          (raised.by = "normalize_region" /\ raised.type = "ValueError")

GeeOrder == <<"probe", "Initialize", "Authenticate", "Initialize">>

\* C7: the Earth Engine calls are made in the order probe, Initialize,
\* Authenticate, Initialize; a call is made only after the probe and the
\* first Initialize before it failed (the second Initialize only after
\* Authenticate succeeded); initialize_gee returns True at the first success
\* and False when the last stage fails, it never raises, and init then
\* returns the configuration.
C7_GeeStagesInOrder ==
    LET n == Len(geeCalls)
    IN  /\ n <= 4
        /\ \A j \in 1..n : geeCalls[j].call = GeeOrder[j]
        /\ \A j \in 1..(n - 1) : geeCalls[j].ok = (j = 3)
        /\ n > 0 => cfg_gee.project_id # ""
        /\ geeResult = "True" => n \in {1, 2, 4} /\ geeCalls[n].ok
        /\ geeResult = "False" => n \in {3, 4} /\ ~geeCalls[n].ok
        /\ (geeResult = "none" /\ n > 0) => (geeCalls[n].ok = (n = 3))
        /\ (geeResult = "none" /\ n > 0) =>
              bpc \in {"gee_initialize", "gee_authenticate", "gee_reinitialize"}
        /\ geeResult # "none" => (bpc \in {"return", "done"} /\ raised = NoError)
        /\ bpc = "done" => returned

C7_Witness ==
    /\ bpc = "done"
    /\ returned
    /\ geeResult = "False"
    /\ geeCalls = << [call |-> "probe", ok |-> FALSE],
                     [call |-> "Initialize", ok |-> FALSE],
                     [call |-> "Authenticate", ok |-> TRUE],
                     [call |-> "Initialize", ok |-> FALSE] >>

\* C28 as stated: after bootstrap init no entry of cfg["regions"] has got a
\* utm_crs or a bbox_utm it did not have after loading.
C28_RegionsMapUntouched ==
    returned =>
        \A key \in DOMAIN cfg_regions :
            /\ heap[cfg_regions[key]].bbox_utm = NoUtm
            /\ heap[cfg_regions[key]].utm_crs \in {"", "EPSG:32632"}

\* C28: select_region stores in cfg["region"] a reference to the chosen
\* record of cfg["regions"]: after bootstrap init the entry of the chosen
\* region carries the utm_crs and bbox_utm that normalize_region wrote, the
\* same that were synchronised to cfg["gee"]; every other entry is as it was.
C28_ChosenRegionEntryIsNormalized ==
    returned =>
        LET key == cfg_defaults.region
        IN  /\ key \in DOMAIN cfg_regions
            /\ cfg_region = cfg_regions[key]
            /\ heap[cfg_regions[key]].utm_crs = cfg_gee.crs
            /\ heap[cfg_regions[key]].utm_crs # ""
            /\ heap[cfg_regions[key]].bbox_utm = cfg_gee.region_bbox_utm
            /\ heap[cfg_regions[key]].bbox_utm # NoUtm
            /\ \A other \in DOMAIN cfg_regions \ {key} :
                  heap[cfg_regions[other]] =
                      RegionRecord(BBox(<<Num(5), Num(6), Num(7), Num(8)>>), "")

\* the berlin entry had no utm_crs and got the default one and a projected
\* bbox; the harz entry is untouched
C28_Witness ==
    /\ returned
    /\ DOMAIN cfg_regions = RegionKeys
    /\ heap[cfg_regions["berlin"]].utm_crs = DEFAULT_UTM
    /\ heap[cfg_regions["berlin"]].bbox_utm.state = "value"
    /\ heap[cfg_regions["harz"]].bbox_utm = NoUtm

(***************************************************************************)
(* The climatology rasters: their writer and the files on disk             *)
(***************************************************************************)
\* for m in range(1, 13)
Months == 1..12

\* the words the band names are made of, as strings of characters
NDVI == <<"n", "d", "v", "i">>
NDWI == <<"n", "d", "w", "i">>
MEDIAN == <<"m", "e", "d", "i", "a", "n">>
MEAN == <<"m", "e", "a", "n">>
STD == <<"s", "t", "d">>
COVERAGE == <<"c", "o", "v", "e", "r", "a", "g", "e">>
MORAN == <<"m", "o", "r", "a", "n">>
GEARY == <<"g", "e", "a", "r", "y">>
Unknown == <<"?">>

\* what one band of a raster holds: a statistic of an index
Band(index, stat) == [index |-> index, stat |-> stat]

\* a monthly composite: band 1 is NDVI, band 2 is NDWI
RawBands == <<NDVI, NDWI>>

\* local_autocorr.process_file: the four bands of an _AUTOCORR file
process_file ==
    LET ndvi == RawBands[1]
        ndwi == RawBands[2]
    IN  << Band(ndvi, MORAN), Band(ndvi, GEARY), Band(ndwi, MORAN), Band(ndwi, GEARY) >>

\* the bands build_month_climatology_tiled writes, dst.write(..., k)
ClimatologyBands(use_autocorr) ==
    LET ndvi == RawBands[1]
        ndwi == RawBands[2]
        ac   == process_file
        base == << Band(ndvi, MEDIAN), Band(ndvi, MEAN), Band(ndvi, STD),
                   Band(ndvi, COVERAGE),
                   Band(ndwi, MEDIAN), Band(ndwi, MEAN), Band(ndwi, STD),
                   Band(ndwi, COVERAGE) >>
    IN  IF use_autocorr THEN base \o <<ac[1], ac[2], ac[3], ac[4]>> ELSE base

\* a raster that no step of the pipeline wrote
ForeignBands(count) == [b \in 1..count |-> Band(Unknown, Unknown)]

\* cfg["defaults"]["region"], cfg["paths"]["base_data_dir"], cfg["paths"]["processed_dir"]
region_key == "berlin"
base_data_dir == <<"data">>
processed_dir == base_data_dir \o <<"processed">>

\* dir / f"CLIMATOLOGY_{prefix}_MONTH_{month:02d}.tif", and for prefix "" the
\* generic name dir / f"CLIMATOLOGY_MONTH_{month:02d}.tif"
Path(dir, prefix, month) == [dir |-> dir, prefix |-> prefix, month |-> month]

NoPath == Path(<<>>, "", 0)

Exists(p) == p \in DOMAIN disk

\* the disk after a file is written (created or overwritten)
Write(files, p, bands) ==
    [q \in (DOMAIN files) \cup {p} |-> IF q = p THEN bands ELSE files[q]]

trainVars == <<key_folder, model, prediction>>

\* build_month_climatology_tiled(month), run once per month, in ascending order
build_month_climatology_tiled ==
    /\ cpc = "climatology"
    /\ LET month    == next_month
           region   == region_key
           PROC_DIR == base_data_dir \o <<"processed", region>>
           years    == {f.year : f \in {g \in raw_files : g.month = month}}
           ac_years == {y \in years : [year |-> y, month |-> month] \in ac_files}
           use_autocorr == ac_years # {}
           out_name == Path(PROC_DIR, region, month)
       IN  IF years = {}
             THEN UNCHANGED disk
             ELSE disk' = Write(disk, out_name, ClimatologyBands(use_autocorr))
    /\ next_month' = next_month + 1
    /\ cpc' = IF next_month = 12 THEN "consumers" ELSE cpc
    /\ UNCHANGED <<raw_files, ac_files, input_csv, feature_table, rasters,
                   clim_rasters, trainVars, climFrame>>

(***************************************************************************)
(* The feature-table builder (build_point_climatology_table.py)            *)
(***************************************************************************)
LATITUDE == <<"l", "a", "t", "i", "t", "u", "d", "e">>
LONGITUDE == <<"l", "o", "n", "g", "i", "t", "u", "d", "e">>
LABEL == <<"l", "a", "b", "e", "l">>
MONTH == <<"m", "o", "n", "t", "h">>
X_UTM == <<"x", "_", "u", "t", "m">>
Y_UTM == <<"y", "_", "u", "t", "m">>

\* a column of a table: its name and, for a sampled column, the file and
\* the band its values were read from
Column(name, path, band) == [name |-> name, path |-> path, band |-> band]
Plain(name) == Column(name, NoPath, 0)

Names(columns) == [j \in 1..Len(columns) |-> columns[j].name]

\* df.drop(columns=[name])
RECURSIVE Drop(_, _)
Drop(columns, name) ==
    IF columns = <<>> THEN <<>>
    ELSE IF Head(columns).name = name THEN Drop(Tail(columns), name)
    ELSE <<Head(columns)>> \o Drop(Tail(columns), name)

\* df[col] = arr for every col of cols in turn: a column whose name exists is
\* replaced in place, another one is appended; the last value of a name wins
SetColumns(columns, cols) ==
    LET Last(name) ==
            cols[CHOOSE h \in 1..Len(cols) :
                    /\ cols[h].name = name
                    /\ \A g \in (h + 1)..Len(cols) : cols[g].name # name]
        Given(name) == \E h \in 1..Len(cols) : cols[h].name = name
        kept == [j \in 1..Len(columns) |->
                    IF Given(columns[j].name) THEN Last(columns[j].name) ELSE columns[j]]
        IsNew(h) == /\ \A j \in 1..Len(columns) : columns[j].name # cols[h].name
                    /\ \A g \in 1..(h - 1) : cols[g].name # cols[h].name
        fresh == SelectSeq([h \in 1..Len(cols) |-> h], IsNew)
    IN  kept \o [k \in 1..Len(fresh) |-> Last(cols[fresh[k]].name)]

SetColumn(columns, col) == SetColumns(columns, <<col>>)

\* load_input_table(path): [error, columns, file], file being the CSV afterwards
load_input_table(csv) ==
    LET df      == IF MONTH \in Range(Names(csv.comma)) THEN Drop(csv.comma, MONTH) ELSE csv.comma
        defect  == Len(df) = 1
        ws      == csv.ws
    IN  IF ~defect THEN [error |-> "", columns |-> df, file |-> csv]
        ELSE IF Len(ws) < 3 THEN [error |-> "RuntimeError", columns |-> <<>>, file |-> csv]
        ELSE [error |-> "", columns |-> ws, file |-> [csv EXCEPT !.comma = ws]]

\* convert_to_utm(df, utm_crs): [error, columns]
convert_to_utm(df) ==
    IF LONGITUDE \notin Range(Names(df)) \/ LATITUDE \notin Range(Names(df))
      THEN [error |-> "ValueError", columns |-> df]
      ELSE [error |-> "", columns |-> SetColumn(SetColumn(df, Plain(X_UTM)), Plain(Y_UTM))]

\* load_rasters(processed_root, region_key)
load_rasters(processed_root, rk) ==
    LET tif_region(m)        == Path(processed_root, rk, m)
        tif_generic(m)       == Path(processed_root, "", m)
        tif_region_subdir(m) == Path(Append(processed_root, rk), rk, m)
        hit == {m \in Months : \/ Exists(tif_region(m))
                               \/ Exists(tif_generic(m))
                               \/ Exists(tif_region_subdir(m))}
        found == [m \in hit |-> IF Exists(tif_region(m)) THEN tif_region(m)
                                ELSE IF Exists(tif_generic(m)) THEN tif_generic(m)
                                ELSE tif_region_subdir(m)]
    IN  IF hit = {} THEN [state |-> "FileNotFoundError", found |-> <<>>]
        ELSE [state |-> "loaded", found |-> found]

BandN(i) == <<"b", "a", "n", "d">> \o IntStr(i)

Joined(first, second) == first \o <<"_">> \o second

infer_band_namesSwapped(n_bands) ==
    IF n_bands = 12
      THEN << Joined(NDVI, MEAN), Joined(NDVI, MEDIAN), Joined(NDVI, STD),
              Joined(NDVI, COVERAGE),
              Joined(NDWI, MEDIAN), Joined(NDWI, MEAN), Joined(NDWI, STD),
              Joined(NDWI, COVERAGE),
              Joined(MORAN, NDVI), Joined(GEARY, NDVI),
              Joined(MORAN, NDWI), Joined(GEARY, NDWI) >>
    ELSE IF n_bands = 8
      THEN << Joined(NDVI, MEAN), Joined(NDVI, MEDIAN), Joined(NDVI, STD),
              Joined(NDVI, COVERAGE),
              Joined(NDWI, MEDIAN), Joined(NDWI, MEAN), Joined(NDWI, STD),
              Joined(NDWI, COVERAGE) >>
    ELSE [i \in 1..n_bands |-> BandN(i)]

\* infer_band_names(n_bands)
infer_band_names(n_bands) ==
    IF n_bands = 12
      THEN << Joined(NDVI, MEDIAN), Joined(NDVI, MEAN), Joined(NDVI, STD),
              Joined(NDVI, COVERAGE),
              Joined(NDWI, MEDIAN), Joined(NDWI, MEAN), Joined(NDWI, STD),
              Joined(NDWI, COVERAGE),
              Joined(MORAN, NDVI), Joined(GEARY, NDVI),
              Joined(MORAN, NDWI), Joined(GEARY, NDWI) >>
    ELSE IF n_bands = 8
      THEN << Joined(NDVI, MEDIAN), Joined(NDVI, MEAN), Joined(NDVI, STD),
              Joined(NDVI, COVERAGE),
              Joined(NDWI, MEDIAN), Joined(NDWI, MEAN), Joined(NDWI, STD),
              Joined(NDWI, COVERAGE) >>
    ELSE [i \in 1..n_bands |-> BandN(i)]

\* f"{month:02d}"
Pad2(month) == IF month < 10 THEN <<"0">> \o IntStr(month) ELSE IntStr(month)

\* f"m{month:02d}_{stat}"
FeatureName(month, stat) == <<"m">> \o Pad2(month) \o <<"_">> \o stat

sample_monthDropsBand(tif_path, month) ==
    LET n_bands    == Len(disk[tif_path])
        band_names == infer_band_names(n_bands)
    IN  [b \in 1..(n_bands - 1) |->
            Column(FeatureName(month, band_names[b]), tif_path, b)]

\* sample_month(df, tif_path, month): the sampled columns, in band order
sample_month(tif_path, month) ==
    LET n_bands    == Len(disk[tif_path])
        band_names == infer_band_names(n_bands)
    IN  [b \in 1..n_bands |->
            Column(FeatureName(month, band_names[b]), tif_path, b)]

\* the keys of a month -> path dict in insertion order, which is ascending
RECURSIVE MonthsFrom(_, _)
MonthsFrom(found, m) ==
    IF m > 12 THEN <<>>
    ELSE (IF m \in DOMAIN found THEN <<m>> ELSE <<>>) \o MonthsFrom(found, m + 1)

\* feature_dict after the loop over rasters.items()
FeatureDict(found) ==
    LET months == MonthsFrom(found, 1)
    IN  SetColumns(<<>>, Flatten([j \in 1..Len(months) |->
                                     sample_month(found[months[j]], months[j])]))

Failed(error) == [state |-> error, columns |-> <<>>]

\* build_feature_table(input_csv, processed_root, region_key, utm_crs, output_csv)
build_feature_table(processed_root, rk) ==
    LET loaded == load_input_table(input_csv)
        utm    == convert_to_utm(loaded.columns)
        rs     == load_rasters(processed_root, rk)
    IN  /\ input_csv' = loaded.file
        /\ IF loaded.error # ""
             THEN feature_table' = Failed(loaded.error) /\ UNCHANGED rasters
           ELSE IF utm.error # ""
             THEN feature_table' = Failed(utm.error) /\ UNCHANGED rasters
           ELSE /\ rasters' = rs
                /\ feature_table' =
                      IF rs.state # "loaded" THEN Failed(rs.state)
                      ELSE [state   |-> "written",
                            columns |-> SetColumns(utm.columns, FeatureDict(rs.found))]

\* build_feature_table_for_cfg(cfg)
build_feature_table_for_cfg ==
    /\ cpc = "consumers"
    /\ feature_table.state = "none"
    /\ LET processed_root == Append(processed_dir, region_key)
       IN  IF ~input_csv.exists
             THEN /\ feature_table' = Failed("FileNotFoundError")
                  /\ UNCHANGED <<input_csv, rasters>>
             ELSE build_feature_table(processed_root, region_key)
    /\ UNCHANGED <<cpc, next_month, raw_files, ac_files, disk, clim_rasters, trainVars, climFrame>>

(***************************************************************************)
(* The prediction-map generator's loader (make_prediction_map.py)          *)
(***************************************************************************)
\* STAT_TO_BAND, as the list of its items
STAT_TO_BAND ==
    << [stat |-> Joined(NDVI, MEDIAN),   band |-> 1],
       [stat |-> Joined(NDVI, MEAN),     band |-> 2],
       [stat |-> Joined(NDVI, STD),      band |-> 3],
       [stat |-> Joined(NDVI, COVERAGE), band |-> 4],
       [stat |-> Joined(NDWI, MEDIAN),   band |-> 5],
       [stat |-> Joined(NDWI, MEAN),     band |-> 6],
       [stat |-> Joined(NDWI, STD),      band |-> 7],
       [stat |-> Joined(NDWI, COVERAGE), band |-> 8],
       [stat |-> Joined(MORAN, NDVI),    band |-> 9],
       [stat |-> Joined(GEARY, NDVI),    band |-> 10],
       [stat |-> Joined(MORAN, NDWI),    band |-> 11],
       [stat |-> Joined(GEARY, NDWI),    band |-> 12] >>

\* STAT_TO_BAND.items()
StatBands == Range(STAT_TO_BAND)

\* STAT_TO_BAND[stat]
BandOfStat(stat) ==
    (CHOOSE e \in StatBands : e.stat = stat).band

IsDigit(ch) == ch \in {"0", "1", "2", "3", "4", "5", "6", "7", "8", "9"}

\* s[a:b] with 0-based a and exclusive b, cut at the end of s
Slice(s, a, b) == SubSeq(s, a + 1, IF b < Len(s) THEN b ELSE Len(s))

\* s.strip() for blanks
RECURSIVE Strip(_)
Strip(s) ==
    IF s = <<>> THEN s
    ELSE IF Head(s) = " " THEN Strip(Tail(s))
    ELSE IF s[Len(s)] = " " THEN Strip(SubSeq(s, 1, Len(s) - 1))
    ELSE s

DigitValue(ch) == CHOOSE v \in 0..9 : <<"0", "1", "2", "3", "4", "5", "6", "7", "8", "9">>[v + 1] = ch

RECURSIVE DigitsValue(_, _)
DigitsValue(s, acc) ==
    IF s = <<>> THEN acc
    ELSE IF Head(s) = "_" THEN DigitsValue(Tail(s), acc)
    ELSE DigitsValue(Tail(s), 10 * acc + DigitValue(Head(s)))

\* int(s): blanks around, an optional sign, digits with single underscores
\* between them; anything else raises ValueError
ParseInt(s) ==
    LET t      == Strip(s)
        signed == t # <<>> /\ t[1] \in {"+", "-"}
        body   == IF signed THEN Tail(t) ELSE t
        ok     == /\ body # <<>>
                  /\ \A k \in 1..Len(body) : IsDigit(body[k]) \/ body[k] = "_"
                  /\ IsDigit(body[1])
                  /\ IsDigit(body[Len(body)])
                  /\ \A k \in 1..(Len(body) - 1) : ~(body[k] = "_" /\ body[k + 1] = "_")
    IN  IF ~ok THEN [ok |-> FALSE, value |-> 0]
        ELSE [ok |-> TRUE,
              value |-> IF signed /\ t[1] = "-" THEN 0 - DigitsValue(body, 0)
                                               ELSE DigitsValue(body, 0)]

\* parse_feature_name(colname): 'm07_ndvi_mean' -> (7, 'ndvi_mean')
parse_feature_name(colname) ==
    [month |-> ParseInt(Slice(colname, 1, 3)).value,
     stat  |-> Slice(colname, 4, Len(colname))]

candidates_rootReversed == << processed_dir, Append(processed_dir, region_key) >>

\* candidates_root = [processed_root / region_key, processed_root]
candidates_root == << Append(processed_dir, region_key), processed_dir >>

\* the candidates of one month, in the order the two loops test them
Candidates(m) ==
    Flatten([j \in 1..Len(candidates_root) |->
                << Path(candidates_root[j], region_key, m),
                   Path(candidates_root[j], "", m) >>])

\* load_climatology_rasters(cfg): the first candidate that exists, per month
LoadedClimatology ==
    LET hit == {m \in Months : \E j \in 1..Len(Candidates(m)) : Exists(Candidates(m)[j])}
        found == [m \in hit |->
                     LET c == Candidates(m)
                         first == CHOOSE j \in 1..Len(c) :
                                     Exists(c[j]) /\ \A h \in 1..(j - 1) : ~Exists(c[h])
                     IN  c[first]]
    IN  IF hit = {} THEN [state |-> "FileNotFoundError", found |-> <<>>]
        ELSE [state |-> "loaded", found |-> found]

\* load_climatology_rasters(cfg)
load_climatology_rasters ==
    /\ cpc = "consumers"
    /\ clim_rasters.state = "none"
    /\ clim_rasters' = LoadedClimatology
    /\ UNCHANGED <<cpc, next_month, raw_files, ac_files, disk, input_csv, feature_table,
                   rasters, trainVars, climFrame>>

(***************************************************************************)
(* The full trainer (train_pilz_model.py)                                  *)
(***************************************************************************)
\* s.startswith(prefix)
StartsWith(s, prefix) == Len(s) >= Len(prefix) /\ SubSeq(s, 1, Len(prefix)) = prefix

\* c.startswith("m") and "coverage" not in c
TrainerUses(c) == StartsWith(c, <<"m">>) /\ ~Contains(c, COVERAGE)

\* train_pilz_model(cfg): the feature CSV is looked up in the first existing
\* one of <features_dir>/<target key> and <features_dir>/<target name>; the
\* builder writes it to the second.  The trainer is run after the builder.
train_pilz_model ==
    /\ cpc = "consumers"
    /\ feature_table.state # "none"
    /\ model.state = "none"
    /\ LET columns == Names(feature_table.columns)
           feature_cols == SelectSeq(columns, TrainerUses)
       IN  model' =
              IF key_folder \/ feature_table.state = "none"
                   \/ feature_table.state # "written"
                THEN [state |-> "FileNotFoundError", feature_cols |-> <<>>]
              ELSE IF LABEL \notin Range(columns)
                THEN [state |-> "KeyError", feature_cols |-> <<>>]
              ELSE [state |-> "saved", feature_cols |-> feature_cols]
    /\ UNCHANGED <<cpc, next_month, raw_files, ac_files, disk, input_csv, feature_table,
                   rasters, clim_rasters, key_folder, prediction, climFrame>>

(***************************************************************************)
(* The prediction-map generator (make_prediction_map.py)                   *)
(***************************************************************************)
\* re.match(r"m\d{2}_.+", c)
GeneratorUses(c) ==
    /\ Len(c) >= 5
    /\ c[1] = "m"
    /\ IsDigit(c[2])
    /\ IsDigit(c[3])
    /\ c[4] = "_"

\* stat in STAT_TO_BAND
KnownStat(stat) == \E e \in StatBands : e.stat = stat

\* one column of X_tile: parse_feature_name(col), STAT_TO_BAND[stat] and
\* rasters.get(month), with the exception the column stops the run with
ResolveFeature(col, months) ==
    LET parsed == parse_feature_name(col)
    IN  IF ~KnownStat(parsed.stat)
          THEN [error |-> "KeyError", month |-> parsed.month, band |-> 0]
        ELSE IF parsed.month \notin months
          THEN [error |-> "ValueError", month |-> parsed.month, band |-> 0]
        ELSE [error |-> "", month |-> parsed.month, band |-> BandOfStat(parsed.stat)]

HasError(resolved) == resolved.error # ""

\* build_prediction_map(cfg), up to the first model.predict_proba(X_tile):
\* the model and the feature CSV are looked up, the feature list is read off
\* the CSV header, the rasters are loaded and every feature is resolved to a
\* month raster and a band
build_prediction_map ==
    /\ cpc = "consumers"
    /\ prediction.state = "none"
    /\ model.state # "none"
    /\ \E feature_cols \in {SelectSeq(Names(feature_table.columns), GeneratorUses)},
          loaded \in {LoadedClimatology} :
          \E matrix \in {[idx \in 1..Len(feature_cols) |->
                            ResolveFeature(feature_cols[idx], DOMAIN loaded.found)]} :
             LET failing == SelectSeq(matrix, HasError)
                 stopped(error) == [state |-> error, feature_cols |-> <<>>, matrix |-> <<>>]
             IN  prediction' =
                    IF model.state # "saved" \/ feature_table.state # "written"
                      THEN stopped("FileNotFoundError")
                    ELSE IF loaded.state # "loaded"
                      THEN stopped("FileNotFoundError")
                    ELSE IF failing # <<>>
                      THEN stopped(Head(failing).error)
                    ELSE [state |-> "passed",
                          feature_cols |-> feature_cols,
                          matrix |-> [idx \in 1..Len(matrix) |->
                                         [month |-> matrix[idx].month,
                                          band  |-> matrix[idx].band]]]
    /\ UNCHANGED <<cpc, next_month, raw_files, ac_files, disk, input_csv, feature_table,
                   rasters, clim_rasters, key_folder, model, climFrame>>

(***************************************************************************)
(* The files the three programs are run on                                 *)
(***************************************************************************)
Years == {2021, 2022}

Raw(years, months) == {[year |-> y, month |-> m] : y \in years, m \in months}

RawChoices == { {}, Raw({2021}, Months), Raw(Years, {1, 2, 3}), Raw({2022}, {7}) }

\* the CLIMATOLOGY files that were put on disk by hand, by location
Placed(generic_region, region_subdir, root_region, root_generic, count) ==
    LET in_region == Append(processed_dir, region_key)
        paths == {Path(in_region, "", m) : m \in generic_region}
                 \cup {Path(Append(in_region, region_key), region_key, m) : m \in region_subdir}
                 \cup {Path(processed_dir, region_key, m) : m \in root_region}
                 \cup {Path(processed_dir, "", m) : m \in root_generic}
    IN  [p \in paths |-> IF count = 12 THEN ClimatologyBands(TRUE) ELSE ForeignBands(count)]

\* a well-formed merged CSV
GoodInput ==
    [exists |-> TRUE, comma |-> <<Plain(LATITUDE), Plain(LONGITUDE), Plain(LABEL)>>,
                      ws |-> <<Plain(Unknown)>>]

InputChoices ==
    LET good == <<Plain(LATITUDE), Plain(LONGITUDE), Plain(LABEL)>>
        one  == <<Plain(Unknown)>>
    IN  { NoInput,
          GoodInput,
          [exists |-> TRUE, comma |-> Append(good, Plain(MONTH)), ws |-> one],
          [exists |-> TRUE, comma |-> <<Plain(LATITUDE), Plain(LABEL), Plain(MONTH)>>,
                            ws |-> one],
          [exists |-> TRUE, comma |-> one, ws |-> good],
          [exists |-> TRUE, comma |-> one, ws |-> Append(good, Plain(MONTH))],
          [exists |-> TRUE, comma |-> one, ws |-> <<Plain(LATITUDE), Plain(LONGITUDE)>>],
          \* a header like 'latitude longitude x,month'
          [exists |-> TRUE, comma |-> <<Plain(Unknown), Plain(MONTH)>>,
                            ws |-> <<Plain(LATITUDE), Plain(LONGITUDE), Plain(Unknown)>>] }

InitClim ==
    /\ cpc = "climatology"
    /\ next_month = 1
    /\ raw_files \in RawChoices
    /\ ac_files \in {{}, raw_files, {f \in raw_files : f.month = 1}}
    /\ \E generic_region \in {{}, {1, 2}}, region_subdir \in {{}, Months},
          root_region \in {{}, {1, 2}, Months}, root_generic \in {{}, Months},
          count \in {4, 12} :
          disk = Placed(generic_region, region_subdir, root_region, root_generic, count)
    /\ input_csv \in InputChoices
    /\ feature_table = NoTable
    /\ rasters = NoRasters
    /\ clim_rasters = NoRasters
    /\ key_folder \in {FALSE, input_csv = GoodInput}
    /\ model = NoModel
    /\ prediction = NoPrediction

NextClim ==
    \/ build_month_climatology_tiled
    \/ build_feature_table_for_cfg
    \/ load_climatology_rasters
    \/ train_pilz_model
    \/ build_prediction_map

SpecClimInit == InitClim /\ IdleFetch /\ IdleYaml /\ IdleBoot /\ IdlePixel /\ IdleAutocorr /\ IdleThr /\ IdleRename /\ IdleDrive /\ IdleSem /\ IdleTree /\ IdleMoran /\ IdleQuant /\ IdleViz /\ IdleTile

SpecClim == SpecClimInit /\ [][NextClim]_vars

(***************************************************************************)
(* Properties of the feature table and of the two raster loaders           *)
(***************************************************************************)
IsSampled(c) == c.band > 0

\* the columns build_feature_table added by sampling
FeatureColumns == SelectSeq(feature_table.columns, IsSampled)

BandCount(p) == Len(disk[p])

TableWritten == feature_table.state = "written"

\* name is m<MM>_<stat> for the month, with a non-empty <stat>
IsFeatureNameOf(name, month) ==
    /\ Len(name) > 4
    /\ SubSeq(name, 1, 4) = <<"m">> \o Pad2(month) \o <<"_">>

StatPart(name) == SubSeq(name, 5, Len(name))

RECURSIVE TotalBands(_, _)
TotalBands(found, m) ==
    IF m > 12 THEN 0
    ELSE (IF m \in DOMAIN found THEN BandCount(found[m]) ELSE 0) + TotalBands(found, m + 1)

\* C8 (as stated): a written feature table has exactly 12 x B feature
\* columns, one named m<MM>_<stat> per month 01..12 and per band, B being
\* the band count of the climatology rasters.
C8_TwelveTimesBandCount ==
    TableWritten =>
        \E B \in 1..12 :
            /\ \A m \in DOMAIN rasters.found : BandCount(rasters.found[m]) = B
            /\ Len(FeatureColumns) = 12 * B
            /\ \A m \in Months, b \in 1..B :
                  \E j \in 1..Len(FeatureColumns) :
                      /\ IsFeatureNameOf(FeatureColumns[j].name, m)
                      /\ FeatureColumns[j].band = b

\* C8 (amended): a written feature table has one feature column named
\* m<MM>_<stat> per month for which load_rasters found a file and per band
\* of that month's raster, and no other feature column: F x B columns for F
\* found months of B bands each, which is 12 x B only when all 12 months
\* were found.
C8_FoundMonthsTimesBandCount ==
    TableWritten =>
        LET found == rasters.found
            cols  == FeatureColumns
        IN  /\ rasters.state = "loaded"
            /\ DOMAIN found # {}
            /\ Len(cols) = TotalBands(found, 1)
            /\ \A m \in DOMAIN found : \A b \in 1..BandCount(found[m]) :
                  \E j \in 1..Len(cols) :
                      /\ cols[j].path = found[m]
                      /\ cols[j].band = b
                      /\ IsFeatureNameOf(cols[j].name, m)
            /\ \A j \in 1..Len(cols) :
                  /\ cols[j].path.month \in DOMAIN found
                  /\ cols[j].path = found[cols[j].path.month]
                  /\ cols[j].band \in 1..BandCount(cols[j].path)
            /\ \A j, h \in 1..Len(cols) : cols[j].name = cols[h].name => j = h
            /\ \A B \in 1..12 :
                  (\A m \in DOMAIN found : BandCount(found[m]) = B) =>
                      /\ Len(cols) = Cardinality(DOMAIN found) * B
                      /\ (Len(cols) = 12 * B) <=> (DOMAIN found = Months)

C8_Witness ==
    /\ TableWritten
    /\ DOMAIN rasters.found = {1, 2, 3}
    /\ \A m \in {1, 2, 3} : BandCount(rasters.found[m]) = 12
    /\ Len(FeatureColumns) = 36

\* the statistic a band name stands for: <index>_<stat> or <stat>_<index>
StatOfName(name) ==
    LET parts == Split(name, "_")
    IN  IF parts[1] \in {NDVI, NDWI} THEN Band(parts[1], parts[2])
        ELSE Band(parts[2], parts[1])

\* the files build_month_climatology_tiled writes
WriterFile(p) == p.dir = Append(processed_dir, region_key) /\ p.prefix = region_key

\* C9: the band names of the feature-table builder, STAT_TO_BAND of the
\* prediction-map generator and the climatology writer agree: for every i in
\* 1..12 STAT_TO_BAND[infer_band_names(12)[i]] = i, infer_band_names(8) is
\* the first 8 names, band i of every file the writer wrote holds the
\* statistic of the i-th name, and every feature column sampled from such a
\* file is named after the statistic of the band it was read from.
C9_BandNamesAgree ==
    /\ Len(STAT_TO_BAND) = 12
    /\ \A i \in 1..12 :
          /\ \E e \in Range(STAT_TO_BAND) : e.stat = infer_band_names(12)[i]
          /\ \A e \in Range(STAT_TO_BAND) :
                e.stat = infer_band_names(12)[i] => e.band = i
    /\ infer_band_names(8) = SubSeq(infer_band_names(12), 1, 8)
    /\ \A p \in DOMAIN disk :
          WriterFile(p) =>
              /\ BandCount(p) \in {8, 12}
              /\ \A i \in 1..BandCount(p) :
                    disk[p][i] = StatOfName(infer_band_names(12)[i])
    /\ TableWritten =>
          \A j \in 1..Len(FeatureColumns) :
              LET c == FeatureColumns[j]
              IN  WriterFile(c.path) =>
                      /\ BandOfStat(StatPart(c.name)) = c.band
                      /\ disk[c.path][c.band] = StatOfName(StatPart(c.name))

C9_Witness ==
    /\ TableWritten
    /\ \E j \in 1..Len(FeatureColumns) :
          /\ FeatureColumns[j].name = FeatureName(1, Joined(MORAN, NDVI))
          /\ FeatureColumns[j].band = 9
          /\ WriterFile(FeatureColumns[j].path)
    /\ \E j \in 1..Len(FeatureColumns) :
          /\ FeatureColumns[j].name = FeatureName(2, Joined(NDWI, COVERAGE))
          /\ FeatureColumns[j].band = 8
          /\ WriterFile(FeatureColumns[j].path)
          /\ BandCount(FeatureColumns[j].path) = 8

BothLoaded == rasters.state # "none" /\ clim_rasters.state # "none"

\* the file a loader resolved the month to, NoPath for none
ResolvedTo(loaded, m) == IF m \in DOMAIN loaded.found THEN loaded.found[m] ELSE NoPath

\* C10 (as stated): for every set of climatology files and every month,
\* load_climatology_rasters resolves the month to the same file as
\* load_rasters called by build_feature_table_for_cfg, and to none exactly
\* when load_rasters finds none.
C10_SameFileForEveryMonth ==
    BothLoaded =>
        \A m \in Months : ResolvedTo(clim_rasters, m) = ResolvedTo(rasters, m)

\* C10 (amended): the two loaders resolve a month to the same file whenever
\* a file of that month lies in <processed_dir>/<region>/ under the region
\* or the generic name; otherwise load_rasters looks only in
\* <processed_dir>/<region>/<region>/ and load_climatology_rasters only in
\* <processed_dir>/ (region name, then generic name).
C10_SameFileInRegionDirectory ==
    BothLoaded =>
        \A m \in Months :
            LET in_region == Append(processed_dir, region_key)
                p1 == Path(in_region, region_key, m)
                p2 == Path(in_region, "", m)
                p3 == Path(Append(in_region, region_key), region_key, m)
                p4 == Path(processed_dir, region_key, m)
                p5 == Path(processed_dir, "", m)
            IN  IF Exists(p1) \/ Exists(p2)
                  THEN /\ ResolvedTo(rasters, m) = (IF Exists(p1) THEN p1 ELSE p2)
                       /\ ResolvedTo(clim_rasters, m) = ResolvedTo(rasters, m)
                  ELSE /\ ResolvedTo(rasters, m) = (IF Exists(p3) THEN p3 ELSE NoPath)
                       /\ ResolvedTo(clim_rasters, m) =
                             (IF Exists(p4) THEN p4 ELSE IF Exists(p5) THEN p5 ELSE NoPath)

C10_Witness ==
    /\ BothLoaded
    /\ ResolvedTo(rasters, 1) = Path(Append(processed_dir, region_key), region_key, 1)
    /\ ResolvedTo(clim_rasters, 1) = ResolvedTo(rasters, 1)
    /\ ResolvedTo(rasters, 4).dir = <<"data", "processed", "berlin", "berlin">>
    /\ ResolvedTo(clim_rasters, 4).dir = <<"data", "processed">>

\* C23: the builder's load_input_table rewrites the input file only when the
\* comma parse has exactly one column and the whitespace parse at least 3;
\* when the comma parse has more than one column the table is returned and
\* the file is left as it was.
C23_RewritesOnlySingleColumnFile ==
    [][ (/\ cpc = "consumers"
         /\ input_csv.exists
         /\ feature_table.state = "none"
         /\ feature_table'.state # "none")
        => /\ input_csv' # input_csv =>
                 (Len(input_csv.comma) = 1 /\ Len(input_csv.ws) >= 3)
           /\ Len(input_csv.comma) > 1 =>
                 (input_csv' = input_csv /\ feature_table'.state # "RuntimeError") ]_vars

(***************************************************************************)
(* Properties of the trainer and of the prediction-map generator           *)
(***************************************************************************)
\* the letter m, two digits, an underscore, a statistic name
IsMonthStat(c) ==
    /\ Len(c) >= 5
    /\ c[1] = "m"
    /\ IsDigit(c[2])
    /\ IsDigit(c[3])
    /\ c[4] = "_"

IsMonthStatWithoutCoverage(c) == IsMonthStat(c) /\ ~Contains(c, COVERAGE)

\* C11: the features the trainer fits on are exactly the columns of the
\* feature CSV named m<MM>_<stat> that do not contain 'coverage', in header
\* order; no other column is used as a feature.
C11_OnlyMonthStatColumns ==
    model.state = "saved" =>
        model.feature_cols =
            SelectSeq(Names(feature_table.columns), IsMonthStatWithoutCoverage)

\* C19: the ordered feature list from which the generator builds the matrix
\* it passes to the model is the ordered feature list the trainer fitted the
\* model on.
C19_SameFeatureList ==
    prediction.state = "passed" => prediction.feature_cols = model.feature_cols

\* C24: the trainer loads the feature CSV whenever it exists in one of the
\* two candidate folders, and raises FileNotFoundError only when it exists in
\* neither.  The builder writes the file to the display-name folder; the
\* species-key folder, when there is one, does not hold it.
C24_LoadsFromEitherFolder ==
    model.state # "none" =>
        (model.state = "FileNotFoundError" <=> feature_table.state # "written")

(***************************************************************************)
(* One pixel: from the yearly composites to the climatology raster         *)
(* (build_month_climatology_tiled), to the feature table (sample_month)    *)
(* and to the matrix of the prediction-map generator.  All the array       *)
(* operations involved work pixel by pixel.                                *)
(*                                                                         *)
(* A value is NaN or a real number: the fraction num/den, or its square    *)
(* root.                                                                   *)
(***************************************************************************)
MaxYears == 3

\* nodata=-9999.0 of the climatology profile
NODATA == -9999

Val(num, den) == [fin |-> TRUE, num |-> num, den |-> den, root |-> FALSE]
RootVal(num, den) == [fin |-> TRUE, num |-> num, den |-> den, root |-> TRUE]
NaNVal == [fin |-> FALSE, num |-> 0, den |-> 1, root |-> FALSE]

\* x == y on floats: NaN equals nothing
NumEq(x, y) ==
    /\ x.fin /\ y.fin
    /\ x.root = y.root
    /\ x.num * y.den = y.num * x.den

\* np.where(x == nodata, np.nan, x), applied when nodata is not None
Masked(x, nodata) ==
    IF nodata.declared /\ NumEq(x, nodata.v) THEN NaNVal ELSE x

IsFinite(x) == x.fin

RECURSIVE SumOf(_)
SumOf(xs) == IF xs = <<>> THEN 0 ELSE Head(xs).num + SumOf(Tail(xs))

RECURSIVE SumOfSquares(_)
SumOfSquares(xs) ==
    IF xs = <<>> THEN 0 ELSE Head(xs).num * Head(xs).num + SumOfSquares(Tail(xs))

\* the position of x in an ascending sequence
RECURSIVE Insert(_, _)
Insert(sorted, x) ==
    IF sorted = <<>> THEN <<x>>
    ELSE IF x.num <= Head(sorted).num THEN <<x>> \o sorted
    ELSE <<Head(sorted)>> \o Insert(Tail(sorted), x)

RECURSIVE Sorted(_)
Sorted(xs) == IF xs = <<>> THEN <<>> ELSE Insert(Sorted(Tail(xs)), Head(xs))

\* np.nanmedian, np.nanmean, np.nanstd along the years; the composites hold
\* whole numbers here
nanmedian(stack) ==
    LET xs == Sorted(SelectSeq(stack, IsFinite))
        k  == Len(xs)
    IN  IF k = 0 THEN NaNVal
        ELSE IF k % 2 = 1 THEN xs[(k + 1) \div 2]
        ELSE Val(xs[k \div 2].num + xs[k \div 2 + 1].num, 2)

nanmean(stack) ==
    LET xs == SelectSeq(stack, IsFinite)
    IN  IF xs = <<>> THEN NaNVal ELSE Val(SumOf(xs), Len(xs))

nanstd(stack) ==
    LET xs == SelectSeq(stack, IsFinite)
        k  == Len(xs)
    IN  IF k = 0 THEN NaNVal
        ELSE RootVal(k * SumOfSquares(xs) - SumOf(xs) * SumOf(xs), k * k)

coverageOfFinite(stack) ==
    LET k == Len(SelectSeq(stack, IsFinite))
    IN  Val(k, IF k = 0 THEN 1 ELSE k)

\* np.isfinite(stack).sum(axis=0) / stack.shape[0]
coverage(stack) == Val(Len(SelectSeq(stack, IsFinite)), Len(stack))

\* clean(x): np.nan_to_num(x, nan=-9999.0)
clean(x) == IF x.fin THEN x ELSE Val(NODATA, 1)

\* the tile loop body of build_month_climatology_tiled at the pixel
aggregate_pixel ==
    /\ pxc = "aggregate"
    /\ LET ndvi_stack == [y \in 1..Len(raw_stack) |-> Masked(raw_stack[y].ndvi, raw_nodata)]
           ndwi_stack == [y \in 1..Len(raw_stack) |-> Masked(raw_stack[y].ndwi, raw_nodata)]
       IN  clim_pixel' = << clean(nanmedian(ndvi_stack)), clean(nanmean(ndvi_stack)),
                            clean(nanstd(ndvi_stack)), clean(coverage(ndvi_stack)),
                            clean(nanmedian(ndwi_stack)), clean(nanmean(ndwi_stack)),
                            clean(nanstd(ndwi_stack)), clean(coverage(ndwi_stack)) >>
    /\ pxc' = "written"
    /\ UNCHANGED <<raw_nodata, raw_stack, sampled, x_tile, pixelFrame>>

\* src.nodata of the climatology raster
clim_nodata == [declared |-> TRUE, v |-> Val(NODATA, 1)]

\* sample_month for one point: inside tells whether it lies in the raster
sample_point ==
    /\ pxc = "written"
    /\ sampled.state = "none"
    /\ \E inside \in BOOLEAN :
          sampled' = [state |-> IF inside THEN "inside" ELSE "outside",
                      vals  |-> [b \in 1..Len(clim_pixel) |->
                                    IF inside THEN Masked(clim_pixel[b], clim_nodata)
                                    ELSE NaNVal]]
    /\ UNCHANGED <<pxc, raw_nodata, raw_stack, clim_pixel, x_tile, pixelFrame>>

\* the row of X_tile for the pixel, the features being the 8 band names
predict_pixel ==
    /\ pxc = "written"
    /\ x_tile.state = "none"
    /\ LET feature_cols == infer_band_names(8)
       IN  x_tile' = [state |-> "filled",
                      vals  |-> [idx \in 1..Len(feature_cols) |->
                                    clim_pixel[BandOfStat(feature_cols[idx])]]]
    /\ UNCHANGED <<pxc, raw_nodata, raw_stack, clim_pixel, sampled, pixelFrame>>

RawValues == {Val(1, 1), Val(3, 1), Val(NODATA, 1), NaNVal}

InitPixel ==
    /\ pxc = "aggregate"
    /\ raw_nodata \in {[declared |-> FALSE, v |-> Val(0, 1)],
                       [declared |-> TRUE, v |-> Val(NODATA, 1)]}
    /\ \E n \in 1..MaxYears :
          raw_stack \in [1..n -> [ndvi : RawValues, ndwi : {Val(1, 1), NaNVal}]]
    /\ clim_pixel = <<>>
    /\ sampled = NoRow
    /\ x_tile = NoRow

NextPixel ==
    \/ aggregate_pixel
    \/ sample_point
    \/ predict_pixel

SpecPixelInit == InitPixel /\ IdleFetch /\ IdleYaml /\ IdleBoot /\ IdleClim /\ IdleAutocorr /\ IdleThr /\ IdleRename /\ IdleDrive /\ IdleSem /\ IdleTree /\ IdleMoran /\ IdleQuant /\ IdleViz /\ IdleTile

SpecPixel == SpecPixelInit /\ [][NextPixel]_vars

\* the years whose composite holds a value at the pixel
ValidYears(index) ==
    {y \in 1..Len(raw_stack) :
        LET x == raw_stack[y][index]
        IN  x.fin /\ ~(raw_nodata.declared /\ x.num = raw_nodata.v.num)}

IsFraction(x, k, n) == x.fin /\ ~x.root /\ x.num * n = k * x.den

\* C12: at every pixel ndvi_coverage and ndwi_coverage lie in [0, 1] and are
\* exactly k/n, k being the number of years whose composite holds a finite
\* value at the pixel (a value equal to the declared nodata is none) and n
\* the number of years aggregated.
C12_CoverageIsFractionOfYears ==
    pxc = "written" =>
        LET n == Len(raw_stack)
        IN  /\ n > 0
            /\ IsFraction(clim_pixel[4], Cardinality(ValidYears("ndvi")), n)
            /\ IsFraction(clim_pixel[8], Cardinality(ValidYears("ndwi")), n)
            /\ \A b \in {4, 8} :
                  /\ clim_pixel[b].den > 0
                  /\ 0 <= clim_pixel[b].num
                  /\ clim_pixel[b].num <= clim_pixel[b].den

C12_Witness ==
    /\ pxc = "written"
    /\ Len(raw_stack) = 3
    /\ Cardinality(ValidYears("ndvi")) = 2
    /\ Cardinality(ValidYears("ndwi")) = 0
    /\ clim_pixel[4] = Val(2, 3)
    /\ clim_pixel[8] = Val(0, 3)

\* C20: for every feature the generator passes to the model the value the
\* builder samples for a point lying in the pixel; a pixel holding the
\* NoData sentinel -9999 reaches the model as NaN from both, never as -9999.
C20_GeneratorPassesSampledValue ==
    (sampled.state = "inside" /\ x_tile.state = "filled") =>
        \A b \in 1..Len(x_tile.vals) :
            /\ x_tile.vals[b] = sampled.vals[b]
            /\ ~NumEq(x_tile.vals[b], Val(NODATA, 1))

(***************************************************************************)
(* compute_local_moran_geary (local_autocorr.py), on a raster that fits    *)
(* into one window: the window of every pixel then holds the whole raster. *)
(* An output pixel is "nan" or "value".                                    *)
(***************************************************************************)
MaxPixels == 7

\* window_size=11, min_valid=5
WINDOW_SIZE == 11
MIN_VALID == 5

StdIsZeroNever(global_std) == FALSE

\* global_std == 0
StdIsZero(global_std) == global_std.fin /\ global_std.num = 0

compute_local_moran_geary ==
    /\ apc = "call"
    /\ LET pixels  == 1..Len(arr)
           mask    == [j \in pixels |-> arr[j].fin]
           all_nan == [j \in pixels |-> "nan"]
           \* uniform_filter(mask) * area: the finite pixels of the window
           valid_count == Cardinality({j \in pixels : mask[j]})
           global_std  == nanstd(arr)
           by_zero     == global_std.num = 0
           neighbor_count(j) == valid_count - (IF mask[j] THEN 1 ELSE 0)
           cond(j) == neighbor_count(j) >= MIN_VALID /\ mask[j]
           \* z = (arr - global_mean) / global_std and
           \* geary = (...) / (2 * global_std**2): 0/0 is NaN
           out == [j \in pixels |-> IF cond(j) /\ ~by_zero THEN "value" ELSE "nan"]
       IN  IF valid_count = 0 \/ StdIsZero(global_std)
             THEN /\ moran' = all_nan
                  /\ geary' = all_nan
                  /\ UNCHANGED divisions
             ELSE /\ moran' = out
                  /\ geary' = out
                  /\ divisions' = << [expr |-> "z", by_zero |-> by_zero],
                                     [expr |-> "geary", by_zero |-> by_zero] >>
    /\ apc' = "returned"
    /\ UNCHANGED <<arr, autocorrFrame>>

InitAutocorr ==
    /\ apc = "call"
    /\ \E n \in 1..MaxPixels : arr \in [1..n -> {Val(1, 1), Val(2, 1), NaNVal}]
    /\ moran = <<>>
    /\ geary = <<>>
    /\ divisions = <<>>

NextAutocorr == compute_local_moran_geary

SpecAutocorrInit == InitAutocorr /\ IdleFetch /\ IdleYaml /\ IdleBoot /\ IdleClim /\ IdlePixel /\ IdleThr /\ IdleRename /\ IdleDrive /\ IdleSem /\ IdleTree /\ IdleMoran /\ IdleQuant /\ IdleViz /\ IdleTile

SpecAutocorr == SpecAutocorrInit /\ [][NextAutocorr]_vars

\* the raster has finite values and they are all equal
ConstantRaster ==
    /\ \E j \in 1..Len(arr) : arr[j].fin
    /\ \A j, h \in 1..Len(arr) : (arr[j].fin /\ arr[h].fin) => arr[j] = arr[h]

MaxSamples == 3

\* thresholds = np.linspace(0.01, 0.99, 200)
GRID_POINTS == 200
GridPoint(i) == 199 + 98 * i
Grid == {GridPoint(i) : i \in 0..(GRID_POINTS - 1)}

\* best_thr, best_j = 0.5, -999
HALF == 9950

Positives(samples) == Cardinality({k \in 1..Len(samples) : samples[k].y_true = 1})
Negatives(samples) == Cardinality({k \in 1..Len(samples) : samples[k].y_true = 0})

\* pred = (y_prob > t); tp, fn, tn, fp
Confusion(samples, t) ==
    LET pred(k) == IF samples[k].y_prob > t THEN 1 ELSE 0
        count(p, l) == Cardinality({k \in 1..Len(samples) :
                                        pred(k) = p /\ samples[k].y_true = l})
    IN  [tp |-> count(1, 1), fn |-> count(0, 1), tn |-> count(0, 0), fp |-> count(1, 0)]

BetterOrEqual(c, best, samples) ==
    \/ best.none
    \/ LET dtp == c.tp - best.tp
           dtn == c.tn - best.tn
           exact == dtp * Negatives(samples) + dtn * Positives(samples)
       IN  exact > 0 \/ (exact = 0 /\ dtp + dtn >= 0)

\* j > best_j, for j = tp / (tp + fn + 1e-9) + tn / (tn + fp + 1e-9) - 1:
\* with P = tp + fn and N = tn + fp the same at every threshold, the sign of
\* j - best_j is that of dtp * (N + 1e-9) + dtn * (P + 1e-9).
Better(c, best, samples) ==
    \/ best.none
    \/ LET dtp == c.tp - best.tp
           dtn == c.tn - best.tn
           exact == dtp * Negatives(samples) + dtn * Positives(samples)
       IN  exact > 0 \/ (exact = 0 /\ dtp + dtn > 0)

\* one iteration of: for t in thresholds
find_best_threshold_step ==
    /\ tpc = "loop"
    /\ t_i < GRID_POINTS
    /\ LET t == GridPoint(t_i)
           c == Confusion(y_test, t)
       IN  IF Better(c, best_j, y_test)
             THEN /\ best_j' = [none |-> FALSE, tp |-> c.tp, tn |-> c.tn]
                  /\ best_thr' = t
             ELSE UNCHANGED <<best_j, best_thr>>
    /\ t_i' = t_i + 1
    /\ UNCHANGED <<tpc, y_test, thrFrame>>

\* return best_thr
find_best_threshold_return ==
    /\ tpc = "loop"
    /\ t_i = GRID_POINTS
    /\ tpc' = "returned"
    /\ UNCHANGED <<y_test, t_i, best_thr, best_j, thrFrame>>

\* 0.02, 0.4995.., 0.5005.., 0.98
Probabilities == {398, 9940, 9960, 19502}

InitThr ==
    /\ tpc = "loop"
    /\ \E n \in 1..MaxSamples :
          y_test \in [1..n -> [y_true : {0, 1}, y_prob : Probabilities]]
    /\ t_i = 0
    /\ best_thr = HALF
    /\ best_j = NoJ

NextThr == find_best_threshold_step \/ find_best_threshold_return

SpecThrInit == InitThr /\ IdleFetch /\ IdleYaml /\ IdleBoot /\ IdleClim /\ IdlePixel /\ IdleAutocorr /\ IdleRename /\ IdleDrive /\ IdleSem /\ IdleTree /\ IdleMoran /\ IdleQuant /\ IdleViz /\ IdleTile

SpecThr == SpecThrInit /\ [][NextThr]_vars

\* every negative is below 0.5, every positive above, and both classes occur
Separated ==
    /\ \A k \in 1..Len(y_test) :
          IF y_test[k].y_true = 1 THEN y_test[k].y_prob > HALF
                                  ELSE y_test[k].y_prob < HALF
    /\ Positives(y_test) > 0
    /\ Negatives(y_test) > 0

\* Youden's J of the returned threshold is 1: every sample is classified right
JIsOne == best_j.tp = Positives(y_test) /\ best_j.tn = Negatives(y_test)

\* C14 as stated: on perfectly separated samples the returned threshold is
\* within a few (five) grid steps of 0.5 and Youden's J there is 1.
C14_NearHalfWithJOne ==
    (tpc = "returned" /\ Separated) =>
        /\ best_thr >= HALF - 5 * 98
        /\ best_thr <= HALF + 5 * 98
        /\ JIsOne

\* the grid points that separate the samples
Separating ==
    {g \in Grid : \A k \in 1..Len(y_test) :
        IF y_test[k].y_true = 1 THEN y_test[k].y_prob > g ELSE y_test[k].y_prob <= g}

\* C14: on perfectly separated samples the returned threshold is a grid point
\* not above the first grid point over 0.5; when some grid point separates the
\* samples it is the smallest such point, and Youden's J there is 1.
C14_SmallestSeparatingGridPoint ==
    (tpc = "returned" /\ Separated) =>
        /\ best_thr \in Grid
        /\ best_thr <= GridPoint(100)
        /\ Separating # {} =>
              /\ best_thr \in Separating
              /\ \A g \in Separating : best_thr <= g
              /\ JIsOne

C14_Witness ==
    /\ tpc = "returned"
    /\ y_test = << [y_true |-> 0, y_prob |-> 398], [y_true |-> 1, y_prob |-> 19502] >>
    /\ best_thr = GridPoint(3)
    /\ JIsOne

(***************************************************************************)
(* rename_to_new_convention.py.  File names are sequences of characters;   *)
(* a file is [name, content], its content named after its first name.      *)
(***************************************************************************)
MaxFiles == 4

\* REGION = "berlin"
REGION == <<"b", "e", "r", "l", "i", "n">>

DotTif == <<".", "t", "i", "f">>

EndsWith(s, suffix) ==
    Len(s) >= Len(suffix) /\ SubSeq(s, Len(s) - Len(suffix) + 1, Len(s)) = suffix

NoDate == [year |-> <<>>, month |-> <<>>]

\* re.compile(r".*?(\d{4})[_-](\d{2}).*?\.tif$").search(name): the leftmost
\* four digits, separator, two digits that '.tif' at the end follows
DateAt(name, i) ==
    /\ i + 10 <= Len(name)
    /\ \A d \in 0..3 : IsDigit(name[i + d])
    /\ name[i + 4] \in {"_", "-"}
    /\ IsDigit(name[i + 5])
    /\ IsDigit(name[i + 6])
    /\ EndsWith(name, DotTif)

Pattern1(name) ==
    LET at == {i \in 1..Len(name) : DateAt(name, i)}
    IN  IF at = {} THEN NoDate
        ELSE LET i == CHOOSE a \in at : \A b \in at : a <= b
             IN  [year |-> SubSeq(name, i, i + 3), month |-> SubSeq(name, i + 5, i + 6)]

OldPrefix == <<"N", "D", "V", "I", "_", "N", "D", "W", "I", "_", "M", "E", "A", "N", "_">>

\* re.compile(r"NDVI_NDWI_MEAN_(\d{4})_(\d{2})\.tif$").search(name)
Pattern2(name) ==
    LET at == {i \in 1..Len(name) :
                  /\ i + Len(OldPrefix) + 10 = Len(name)
                  /\ SubSeq(name, i, i + Len(OldPrefix) - 1) = OldPrefix
                  /\ DateAt(name, i + Len(OldPrefix))
                  /\ name[i + Len(OldPrefix) + 4] = "_"}
    IN  IF at = {} THEN NoDate
        ELSE LET i == (CHOOSE a \in at : TRUE) + Len(OldPrefix)
             IN  [year |-> SubSeq(name, i, i + 3), month |-> SubSeq(name, i + 5, i + 6)]

\* for pat in PATTERNS: first match wins
parse_date_from_name(name) ==
    IF Pattern1(name) # NoDate THEN Pattern1(name) ELSE Pattern2(name)

\* f"{REGION}_GEE_MONTHLY_{year}_{month}.tif"
NewName(date) ==
    REGION \o <<"_", "G", "E", "E", "_", "M", "O", "N", "T", "H", "L", "Y", "_">> \o date.year \o <<"_">> \o date.month \o DotTif

NamesOf(dir) == {f.name : f \in dir}

ExistsNever(dir, name) == FALSE

\* new_path.exists()
PathExists(dir, name) == name \in NamesOf(dir)

\* one iteration of: for tif in tif_files
main_step ==
    /\ rpc = "loop"
    /\ \E tif \in tif_files :
          LET date     == parse_date_from_name(tif)
              new_name == NewName(date)
              moved    == {f \in raw_dir : f.name = tif}
              replaced == {f \in raw_dir : f.name = new_name /\ f.name # tif}
          IN  /\ tif_files' = tif_files \ {tif}
              /\ IF date = NoDate \/ PathExists(raw_dir, new_name)
                   THEN UNCHANGED <<raw_dir, overwritten>>
                   ELSE \* tif.rename(new_path) replaces an existing target
                        /\ raw_dir' = (raw_dir \ (moved \cup replaced)) \cup
                               {[name |-> new_name, content |-> f.content] : f \in moved}
                        /\ overwritten' = overwritten \cup {f.content : f \in replaced}
    /\ UNCHANGED <<rpc, initial_dir, renameFrame>>

main_return ==
    /\ rpc = "loop"
    /\ tif_files = {}
    /\ rpc' = "done"
    /\ UNCHANGED <<raw_dir, tif_files, initial_dir, overwritten, renameFrame>>

TifNames == {
    <<"2", "0", "2", "3", "_", "0", "9", ".", "t", "i", "f">>,
    <<"2", "0", "2", "3", "_", "0", "9", "_", "t", "e", "s", "t", ".", "t", "i", "f">>,
    <<"N", "D", "V", "I", "_", "N", "D", "W", "I", "_", "M", "E", "A", "N", "_", "2", "0", "2", "3", "_", "0", "9", ".", "t", "i", "f">>,
    <<"b", "e", "r", "l", "i", "n", "_", "G", "E", "E", "_", "M", "O", "N", "T", "H", "L", "Y", "_", "2", "0", "2", "3", "_", "0", "9", ".", "t", "i", "f">>,
    <<"2", "0", "2", "1", "-", "0", "8", ".", "t", "i", "f">>,
    <<"d", "e", "m", ".", "t", "i", "f">>,
    <<"b", "e", "r", "l", "i", "n", "_", "G", "E", "E", "_", "M", "O", "N", "T", "H", "L", "Y", "_", "2", "0", "2", "1", "_", "0", "8", ".", "t", "i", "f">>,
    <<"2", "0", "2", "3", "0", "_", "9", ".", "t", "i", "f">> }

\* tif_files = list(RAW_DIR.glob("*.tif"))
InitRename ==
    /\ rpc = "loop"
    /\ \E found \in SUBSET TifNames :
          /\ Cardinality(found) <= MaxFiles
          /\ raw_dir = {[name |-> n, content |-> n] : n \in found}
          /\ tif_files = found
    /\ initial_dir = raw_dir
    /\ overwritten = {}

NextRename == main_step \/ main_return

SpecRenameInit == InitRename /\ IdleFetch /\ IdleYaml /\ IdleBoot /\ IdleClim /\ IdlePixel /\ IdleAutocorr /\ IdleThr /\ IdleDrive /\ IdleSem /\ IdleTree /\ IdleMoran /\ IdleQuant /\ IdleViz /\ IdleTile

SpecRename == SpecRenameInit /\ [][NextRename]_vars

\* C17: at every moment of a run no rename has replaced a file, every file the
\* run started with is still there under exactly one name, the number of
\* files is unchanged, and a file whose name has no extractable date keeps its
\* name.
C17_NoFileOverwrittenOrLost ==
    rpc \in {"loop", "done"} =>
        /\ overwritten = {}
        /\ Cardinality(raw_dir) = Cardinality(initial_dir)
        /\ Cardinality(NamesOf(raw_dir)) = Cardinality(raw_dir)
        /\ {f.content : f \in raw_dir} = {f.content : f \in initial_dir}
        /\ \A f \in raw_dir :
              parse_date_from_name(f.content) = NoDate => f.name = f.content

\* two files with the same date and one without a date: one is renamed, the
\* other is skipped because the target exists by then
C17_Witness ==
    /\ rpc = "done"
    /\ NamesOf(initial_dir) = { <<"2", "0", "2", "3", "_", "0", "9", ".", "t", "i", "f">>,
                                <<"2", "0", "2", "3", "_", "0", "9", "_", "t", "e", "s", "t", ".", "t", "i", "f">>,
                                <<"d", "e", "m", ".", "t", "i", "f">> }
    /\ NamesOf(raw_dir) = { <<"b", "e", "r", "l", "i", "n", "_", "G", "E", "E", "_", "M", "O", "N", "T", "H", "L", "Y", "_", "2", "0", "2", "3", "_", "0", "9", ".", "t", "i", "f">>,
                            <<"2", "0", "2", "3", "_", "0", "9", "_", "t", "e", "s", "t", ".", "t", "i", "f">>,
                            <<"d", "e", "m", ".", "t", "i", "f">> }

\* the directory after the loop body has visited tif
Visited(dir, tif) ==
    LET date     == parse_date_from_name(tif)
        new_name == NewName(date)
    IN  IF date = NoDate \/ PathExists(dir, new_name) THEN dir
        ELSE {IF f.name = tif THEN [name |-> new_name, content |-> f.content] ELSE f :
                 f \in dir}

RECURSIVE VisitedAll(_, _)
VisitedAll(dir, order) ==
    IF order = <<>> THEN dir
    ELSE VisitedAll(Visited(dir, Head(order)), Tail(order))

\* one enumeration of the names
OneOrder(names) ==
    CHOOSE order \in [1..Cardinality(names) -> names] : Range(order) = names

\* C29: every enumeration order of the listing leads to the same final
\* assignment of contents to names: the one a fixed enumeration gives.
C29_ResultIndependentOfListingOrder ==
    rpc = "done" =>
        raw_dir = VisitedAll(initial_dir, OneOrder(NamesOf(initial_dir)))

(***************************************************************************)
(* get_drive_service (download_from_drive.py).                             *)
(***************************************************************************)

\* the names the module imports: build, MediaIoBaseDownload, Credentials,
\* InstalledAppFlow; Request is not among them
RequestIsImported == FALSE

\* creds.valid: a token that is not expired
Valid(c) == ~c.none /\ c.token /\ ~c.expired

FreshCreds == [none |-> FALSE, token |-> TRUE, expired |-> FALSE, refresh_token |-> TRUE]

\* if token_path.exists(): creds = Credentials.from_authorized_user_file(...)
load_token ==
    /\ dpc = "start"
    /\ IF ~token_file.exists
         THEN /\ dpc' = "check"
              /\ UNCHANGED <<creds, drive_error>>
         ELSE IF ~token_file.parsable
                THEN /\ dpc' = "raised"
                     /\ drive_error' = "ValueError"
                     /\ UNCHANGED creds
                ELSE /\ creds' = token_file.creds
                     /\ dpc' = "check"
                     /\ UNCHANGED drive_error
    /\ UNCHANGED <<token_file, creds_file, drive_events, token_at_call, driveFrame>>

\* if not creds or not creds.valid: refresh, or start the consent flow
check_creds ==
    /\ dpc = "check"
    /\ IF creds.none \/ ~Valid(creds)
         THEN IF ~creds.none /\ creds.expired /\ creds.refresh_token
                THEN \* creds.refresh(Request())
                     IF RequestIsImported
                       THEN \/ /\ creds' = [creds EXCEPT !.token = TRUE, !.expired = FALSE]
                               /\ drive_events' = Append(drive_events, "refresh")
                               /\ dpc' = "write"
                               /\ UNCHANGED drive_error
                            \/ /\ dpc' = "raised"
                               /\ drive_error' = "RefreshError"
                               /\ UNCHANGED <<creds, drive_events>>
                       ELSE /\ dpc' = "raised"
                            /\ drive_error' = "NameError"
                            /\ UNCHANGED <<creds, drive_events>>
                ELSE IF creds_file = "missing"
                       THEN /\ dpc' = "raised"
                            /\ drive_error' = "RuntimeError"
                            /\ UNCHANGED <<creds, drive_events>>
                       ELSE IF creds_file = "malformed"
                              THEN \* InstalledAppFlow.from_client_secrets_file
                                   /\ dpc' = "raised"
                                   /\ drive_error' = "ValueError"
                                   /\ UNCHANGED <<creds, drive_events>>
                              ELSE /\ dpc' = "flow"
                                   /\ UNCHANGED <<creds, drive_events, drive_error>>
         ELSE /\ dpc' = "build"
              /\ UNCHANGED <<creds, drive_events, drive_error>>
    /\ UNCHANGED <<token_file, creds_file, token_at_call, driveFrame>>

\* creds = flow.run_local_server(port=0): the user consents or does not
run_local_server ==
    /\ dpc = "flow"
    /\ drive_events' = Append(drive_events, "flow")
    /\ \/ /\ creds' = FreshCreds
          /\ dpc' = "write"
          /\ UNCHANGED drive_error
       \/ /\ dpc' = "raised"
          /\ drive_error' = "FlowError"
          /\ UNCHANGED creds
    /\ UNCHANGED <<token_file, creds_file, token_at_call, driveFrame>>

\* with open(token_path, "w") as f: f.write(creds.to_json())
write_token ==
    /\ dpc = "write"
    /\ token_file' = [exists |-> TRUE, parsable |-> TRUE, creds |-> creds]
    /\ drive_events' = Append(drive_events, "write")
    /\ dpc' = "build"
    /\ UNCHANGED <<creds_file, creds, drive_error, token_at_call, driveFrame>>

\* return build("drive", "v3", credentials=creds)
build_service ==
    /\ dpc = "build"
    /\ dpc' = "returned"
    /\ UNCHANGED <<token_file, creds_file, creds, drive_events, drive_error,
                   token_at_call, driveFrame>>

TokenFiles ==
    {NoTokenFile, [exists |-> TRUE, parsable |-> FALSE, creds |-> NoCreds]} \cup
    {[exists |-> TRUE, parsable |-> TRUE,
      creds |-> [none |-> FALSE, token |-> t, expired |-> e, refresh_token |-> r]] :
        t \in BOOLEAN, e \in BOOLEAN, r \in BOOLEAN}

InitDrive ==
    /\ dpc = "start"
    /\ token_file \in TokenFiles
    /\ creds_file \in {"missing", "ok", "malformed"}
    /\ creds = NoCreds
    /\ drive_events = <<>>
    /\ drive_error = "none"
    /\ token_at_call = token_file

NextDrive ==
    load_token \/ check_creds \/ run_local_server \/ write_token \/ build_service

SpecDriveInit == InitDrive /\ IdleFetch /\ IdleYaml /\ IdleBoot /\ IdleClim /\ IdlePixel /\ IdleAutocorr /\ IdleThr /\ IdleRename /\ IdleSem /\ IdleTree /\ IdleMoran /\ IdleQuant /\ IdleViz /\ IdleTile

SpecDrive == SpecDriveInit /\ [][NextDrive]_vars

Happened(event) == \E k \in 1..Len(drive_events) : drive_events[k] = event

\* the call found a valid cached token
ValidCachedToken ==
    token_at_call.exists /\ token_at_call.parsable /\ Valid(token_at_call.creds)

\* the call found no token file, or a readable one whose token is not valid
NoValidCachedToken ==
    \/ ~token_at_call.exists
    \/ token_at_call.parsable /\ ~Valid(token_at_call.creds)

\* C18: with no valid cached token and the credentials file present (and a
\* user who consents when asked) the call obtains valid credentials by refresh
\* or consent flow, writes them to the token file and returns a service; with
\* a valid cached token it starts no flow and writes nothing.
C18_ObtainsCredentialsOrReusesToken ==
    dpc \in {"returned", "raised"} =>
        /\ (NoValidCachedToken /\ creds_file = "ok" /\ drive_error # "FlowError") =>
              /\ dpc = "returned"
              /\ Valid(creds)
              /\ Happened("refresh") \/ Happened("flow")
              /\ token_file = [exists |-> TRUE, parsable |-> TRUE, creds |-> creds]
        /\ ValidCachedToken =>
              /\ dpc = "returned"
              /\ drive_events = <<>>
              /\ token_file = token_at_call

(***************************************************************************)
(* infer_semantics (global_surrogate.py, global_surrogate_train.py,        *)
(* tree_explain.py).  Ranges are in tenths, umlauts written as ae.         *)
(***************************************************************************)
NDVI_PALETTE == <<"#f2f2f2", "#a3c586", "#2f6b3a">>
NDWI_PALETTE == <<"#f7fbff", "#6baed6", "#08519c">>
MORAN_PALETTE == <<"#fee8c8", "#fdbb84", "#e34a33">>
GEARY_PALETTE == <<"#f7f4f9", "#998ec3", "#542788">>
GRAY_PALETTE == <<"#dddddd", "#aaaaaa", "#666666">>

RANGES == [ndvi_mean |-> <<0, 10>>, ndwi_mean |-> <<-10, 10>>,
           moran |-> <<-2, 40>>, geary |-> <<0, 15>>]

Fallback(name) == [label |-> name, palette |-> GRAY_PALETTE, range |-> <<0, 10>>]

Season(month) ==
    IF month \in {7, 8, 9} THEN "Sommer"
    ELSE IF month \in {10, 11, 12} THEN "Herbst"
    ELSE "Saison"

\* infer_semantics(feature_name): the month is int(feature_name[1:3]) and the
\* statistic is feature_name[4:]; the character between them is not looked at
infer_semantics(name) ==
    IF ~(StartsWith(name, <<"m">>) /\ Contains(name, <<"_">>))
      THEN Fallback(name)
    ELSE
      LET month  == ParseInt(Slice(name, 1, 3))
          rest   == Slice(name, 4, Len(name))
          season == Season(month.value)
      IN  IF ~month.ok THEN Fallback(name)
          ELSE IF StartsWith(rest, <<"n", "d", "v", "i", "_", "m", "e", "a", "n">>)
            THEN [label |-> <<"Vegetationsdichte (", season, ", NDVI)">>,
                  palette |-> NDVI_PALETTE, range |-> RANGES.ndvi_mean]
          ELSE IF StartsWith(rest, <<"n", "d", "w", "i", "_", "m", "e", "a", "n">>)
            THEN [label |-> <<"Feuchtigkeit (", season, ", NDWI)">>,
                  palette |-> NDWI_PALETTE, range |-> RANGES.ndwi_mean]
          ELSE IF StartsWith(rest, <<"m", "o", "r", "a", "n", "_", "n", "d", "v", "i">>)
            THEN [label |-> <<"Vegetations-Cluster (", season, ", Moran)">>,
                  palette |-> MORAN_PALETTE, range |-> RANGES.moran]
          ELSE IF StartsWith(rest, <<"m", "o", "r", "a", "n", "_", "n", "d", "w", "i">>)
            THEN [label |-> <<"Feuchtigkeits-Cluster (", season, ", Moran)">>,
                  palette |-> MORAN_PALETTE, range |-> RANGES.moran]
          ELSE IF StartsWith(rest, <<"g", "e", "a", "r", "y", "_", "n", "d", "v", "i">>)
            THEN [label |-> <<"Vegetations-Heterogenitaet (", season, ", Geary)">>,
                  palette |-> GEARY_PALETTE, range |-> RANGES.geary]
          ELSE IF StartsWith(rest, <<"g", "e", "a", "r", "y", "_", "n", "d", "w", "i">>)
            THEN [label |-> <<"Feuchtigkeits-Heterogenitaet (", season, ", Geary)">>,
                  palette |-> GEARY_PALETTE, range |-> RANGES.geary]
          ELSE Fallback(name)

call_infer_semantics ==
    /\ spc = "call"
    /\ semantics' = infer_semantics(feature_name)
    /\ spc' = "returned"
    /\ UNCHANGED <<feature_name, semFrame>>

NamePrefixes == {
    <<"m", "0", "7", "_">>,
    <<"m", "1", "0", "_">>,
    <<"m", "0", "1", "_">>,
    <<"m", "1", "3", "_">>,
    <<"m", "0", "7", "x">>,
    <<"m", "+", "7", "_">>,
    <<"m", "-", "7", "_">>,
    <<"m", " ", "7", "_">>,
    <<"m", "7", "_">>,
    <<"m", "7", "_", "_">>,
    <<"x", "0", "7", "_">>,
    <<"M", "0", "7", "_">>,
    <<"m", "a", "b", "_">>,
    <<"m", "0", "7">>,
    <<"0", "7", "_">> }

NameRests == {
    <<"n", "d", "v", "i", "_", "m", "e", "a", "n">>,
    <<"n", "d", "w", "i", "_", "m", "e", "a", "n">>,
    <<"m", "o", "r", "a", "n", "_", "n", "d", "v", "i">>,
    <<"m", "o", "r", "a", "n", "_", "n", "d", "w", "i">>,
    <<"g", "e", "a", "r", "y", "_", "n", "d", "v", "i">>,
    <<"g", "e", "a", "r", "y", "_", "n", "d", "w", "i">>,
    <<"n", "d", "v", "i", "_", "m", "e", "d", "i", "a", "n">>,
    <<"n", "d", "v", "i", "_", "m", "e", "a", "n", "_", "x">>,
    <<>> }

InitSem ==
    /\ spc = "call"
    /\ \E prefix \in NamePrefixes, rest \in NameRests : feature_name = prefix \o rest
    /\ semantics = NoSemantics

NextSem == call_infer_semantics

SpecSemInit == InitSem /\ IdleFetch /\ IdleYaml /\ IdleBoot /\ IdleClim /\ IdlePixel /\ IdleAutocorr /\ IdleThr /\ IdleRename /\ IdleDrive /\ IdleTree /\ IdleMoran /\ IdleQuant /\ IdleViz /\ IdleTile

SpecSem == SpecSemInit /\ [][NextSem]_vars

\* m\d\d_ at the start of the name
MatchesMonthPrefix(name) ==
    /\ Len(name) >= 4
    /\ name[1] = "m"
    /\ IsDigit(name[2])
    /\ IsDigit(name[3])
    /\ name[4] = "_"

\* C16: a name that does not start with m, two digits and an underscore gets
\* the fallback: itself as label, the gray palette and the range [0, 1].
C16_FallbackForForeignNames ==
    (spc = "returned" /\ ~MatchesMonthPrefix(feature_name)) =>
        semantics = Fallback(feature_name)

(***************************************************************************)
(* tree_to_json (global_surrogate.py, global_surrogate_train.py).  The     *)
(* arrays of the fitted tree_ are functions of the node id, 0 the root.    *)
(***************************************************************************)

\* tree.feature[node_id] == -2 marks a leaf
TREE_LEAF == -2

feature_names == << <<"m", "0", "7", "_", "n", "d", "v", "i", "_", "m", "e", "a", "n">>,
                    <<"e", "l", "e", "v", "a", "t", "i", "o", "n">> >>

NodeSwapped(feat_name, thr, left, right) ==
    LET sem == infer_semantics(feat_name)
    IN  [feature |-> feat_name, threshold |-> thr, yes |-> left, no |-> right,
         label |-> sem.label, palette |-> sem.palette, range |-> sem.range]

\* node = {"feature": feat_name, "threshold": thr, "yes": right, "no": left}
\* node.update(semantics)
Node(feat_name, thr, left, right) ==
    LET sem == infer_semantics(feat_name)
    IN  [feature |-> feat_name, threshold |-> thr, yes |-> right, no |-> left,
         label |-> sem.label, palette |-> sem.palette, range |-> sem.range]

RECURSIVE recurse(_, _)
recurse(t, node_id) ==
    IF t.feature[node_id] = TREE_LEAF
      THEN [leaf |-> t.value[node_id], suit |-> t.value[node_id]]
      ELSE Node(feature_names[t.feature[node_id] + 1], t.threshold[node_id],
                recurse(t, t.children_left[node_id]),
                recurse(t, t.children_right[node_id]))

\* return recurse(0)
tree_to_json ==
    /\ jpc = "call"
    /\ tree_json' = recurse(tree, 0)
    /\ jpc' = "returned"
    /\ UNCHANGED <<tree, treeFrame>>

\* the children arrays of the tree shapes of depth 1 and 2, nodes numbered
\* depth first as the fit numbers them; -1 is no child
Shapes == {
    [children_left |-> [n \in 0..2 |-> <<1, -1, -1>>[n + 1]],
     children_right |-> [n \in 0..2 |-> <<2, -1, -1>>[n + 1]]],
    [children_left |-> [n \in 0..4 |-> <<1, 2, -1, -1, -1>>[n + 1]],
     children_right |-> [n \in 0..4 |-> <<4, 3, -1, -1, -1>>[n + 1]]],
    [children_left |-> [n \in 0..4 |-> <<1, -1, 3, -1, -1>>[n + 1]],
     children_right |-> [n \in 0..4 |-> <<2, -1, 4, -1, -1>>[n + 1]]],
    [children_left |-> [n \in 0..6 |-> <<1, 2, -1, -1, 5, -1, -1>>[n + 1]],
     children_right |-> [n \in 0..6 |-> <<4, 3, -1, -1, 6, -1, -1>>[n + 1]]] }

Thresholds == {1, 2}

\* a fitted tree: every leaf has its own value (its node id), every split a
\* feature index and a threshold
InitTree ==
    /\ jpc = "call"
    /\ \E shape \in Shapes :
          LET nodes  == DOMAIN shape.children_left
              splits == {n \in nodes : shape.children_left[n] # -1}
          IN  \E f \in [splits -> {0, 1}], thr \in [splits -> Thresholds] :
                 tree = [feature |-> [n \in nodes |-> IF n \in splits THEN f[n] ELSE TREE_LEAF],
                         threshold |-> [n \in nodes |-> IF n \in splits THEN thr[n] ELSE TREE_LEAF],
                         children_left |-> shape.children_left,
                         children_right |-> shape.children_right,
                         value |-> [n \in nodes |-> n]]
    /\ tree_json = NoJson

NextTree == tree_to_json

SpecTreeInit == InitTree /\ IdleFetch /\ IdleYaml /\ IdleBoot /\ IdleClim /\ IdlePixel /\ IdleAutocorr /\ IdleThr /\ IdleRename /\ IdleDrive /\ IdleSem /\ IdleMoran /\ IdleQuant /\ IdleViz /\ IdleTile

SpecTree == SpecTreeInit /\ [][NextTree]_vars

\* the fitted tree sends a sample to the left child when its feature value
\* is <= the threshold of the node, to the right child otherwise
Route(t, node_id, v) ==
    IF v <= t.threshold[node_id] THEN t.children_left[node_id]
                                 ELSE t.children_right[node_id]

IsLeaf(j) == "leaf" \in DOMAIN j

RECURSIVE LeavesJson(_)
LeavesJson(j) ==
    IF IsLeaf(j) THEN {j.leaf} ELSE LeavesJson(j.yes) \cup LeavesJson(j.no)

RECURSIVE LeavesTree(_, _)
LeavesTree(t, node_id) ==
    IF t.feature[node_id] = TREE_LEAF THEN {t.value[node_id]}
    ELSE LeavesTree(t, t.children_left[node_id]) \cup LeavesTree(t, t.children_right[node_id])

\* the JSON node a sequence of "yes"/"no" steps leads to, NoJson if none
RECURSIVE JsonAt(_, _)
JsonAt(j, path) ==
    IF path = <<>> THEN j
    ELSE IF IsLeaf(j) \/ "none" \in DOMAIN j THEN NoJson
    ELSE JsonAt(IF Head(path) = "yes" THEN j.yes ELSE j.no, Tail(path))

JsonPaths == {<<>>, <<"yes">>, <<"no">>}

SplitPaths ==
    {path \in JsonPaths : LET j == JsonAt(tree_json, path)
                          IN  ~IsLeaf(j) /\ "none" \notin DOMAIN j}

\* the node of the fitted tree a JSON node was built from: the one with the
\* same leaves below it
TreeNodeOf(j) ==
    CHOOSE n \in DOMAIN tree.feature : LeavesTree(tree, n) = LeavesJson(j)

FeatureValues == 0..3

MaxSide == 5

Pixels(g) == (1..g.h) \X (1..g.w)

RECURSIVE SumOver(_, _)
SumOver(f, set) ==
    IF set = {} THEN 0
    ELSE LET e == CHOOSE e \in set : TRUE
         IN  f[e] + SumOver(f, set \ {e})

\* the pixels of the raster under uniform_filter(size=window_size,
\* mode="constant", cval=0.0) centred at p
Window(g, size, p) ==
    LET k == size \div 2
    IN  {q \in Pixels(g) : /\ q[1] >= p[1] - k /\ q[1] <= p[1] + k
                           /\ q[2] >= p[2] - k /\ q[2] <= p[2] + k}

Sign(n) == IF n < 0 THEN "neg" ELSE IF n > 0 THEN "pos" ELSE "zero"

\* compute_local_moran_geary(arr, window_size, min_valid=5), Moran output
local_moran ==
    /\ mpc = "call"
    /\ LET N == grid.h * grid.w
           S == SumOver(grid.x, Pixels(grid))
           \* N * (arr - global_mean)
           dev == [p \in Pixels(grid) |-> N * grid.x[p] - S]
           constant == \A p \in Pixels(grid) : dev[p] = 0
           neighbor_count(p) == Cardinality(Window(grid, window_size, p)) - 1
           \* z * lag_z, lag_z = (sum_z - z_f) / neighbor_count
           moran_at(p) == dev[p] * (SumOver(dev, Window(grid, window_size, p)) - dev[p])
       IN  moran_sign' =
              IF constant THEN [p \in Pixels(grid) |-> "nan"]
              ELSE [p \in Pixels(grid) |->
                       IF neighbor_count(p) >= MIN_VALID THEN Sign(moran_at(p)) ELSE "nan"]
    /\ mpc' = "returned"
    /\ UNCHANGED <<grid, grid_kind, window_size, moranFrame>>

\* a sharp two-valued checkerboard and rasters that vary smoothly
Checkerboard(h, w, a, b, phase) ==
    [h |-> h, w |-> w,
     x |-> [p \in (1..h) \X (1..w) |-> IF (p[1] + p[2] + phase) % 2 = 0 THEN a ELSE b]]

Gradient(h, w, dr, dc) ==
    [h |-> h, w |-> w, x |-> [p \in (1..h) \X (1..w) |-> dr * p[1] + dc * p[2]]]

InitMoran ==
    /\ mpc = "call"
    /\ window_size \in {3, 5}
    /\ \E h \in 3..MaxSide, w \in 3..MaxSide :
          \/ /\ grid_kind = "checkerboard"
             /\ \E phase \in {0, 1}, b \in {1, 3} : grid = Checkerboard(h, w, 0, b, phase)
          \/ /\ grid_kind = "smooth"
             /\ \E dr \in {0, 1}, dc \in {1, 2} : grid = Gradient(h, w, dr, dc)
    /\ moran_sign = <<>>

NextMoran == local_moran

SpecMoranInit == InitMoran /\ IdleFetch /\ IdleYaml /\ IdleBoot /\ IdleClim /\ IdlePixel /\ IdleAutocorr /\ IdleThr /\ IdleRename /\ IdleDrive /\ IdleSem /\ IdleTree /\ IdleQuant /\ IdleViz /\ IdleTile

SpecMoran == SpecMoranInit /\ [][NextMoran]_vars

\* the pixels whose whole window lies inside the raster
Interior ==
    {p \in Pixels(grid) : Cardinality(Window(grid, window_size, p)) = window_size * window_size}

\* C30: at every interior pixel the local Moran's I of a checkerboard is
\* negative and that of a smoothly varying raster is positive.
C30_CheckerboardNegativeSmoothPositive ==
    mpc = "returned" =>
        \A p \in Interior :
            /\ grid_kind = "checkerboard" => moran_sign[p] = "neg"
            /\ grid_kind = "smooth" => moran_sign[p] = "pos"

(***************************************************************************)
(* spatial_trend_stats.process_tiles: the global 5% / 95% quantiles of the *)
(* valid trend values and the quantile map.  Trends are integers or not finite; *)
(* quantiles are kept as twenty times their value, which is an integer for *)
(* numpy's linear interpolation at 0.05 and 0.95.                          *)
(***************************************************************************)
MaxCells == 4

TrendIsFinite(t) == t.fin

\* mask_valid = valid_full & np.isfinite(trend_full)
mask_valid(i) == valid_full[i] /\ TrendIsFinite(trend_full[i])

\* the k-th smallest of the values vals[i], i in idx (k from 1)
KthSmallest(vals, idx, k) ==
    CHOOSE v \in {vals[i].v : i \in idx} :
        /\ Cardinality({i \in idx : vals[i].v < v}) < k
        /\ Cardinality({i \in idx : vals[i].v <= v}) >= k

\* twenty times np.nanquantile(vals[idx], twentieths / 20), linear interpolation
nanquantile20(vals, idx, twentieths) ==
    LET n == Cardinality(idx)
        pos == twentieths * (n - 1)
        lo == pos \div 20
        frac == pos % 20
        s_lo == KthSmallest(vals, idx, lo + 1)
    IN  IF frac = 0 THEN 20 * s_lo
        ELSE 20 * s_lo + frac * (KthSmallest(vals, idx, lo + 2) - s_lo)

global_quantiles ==
    /\ qpc = "call"
    /\ LET valid_trend == {i \in DOMAIN trend_full : mask_valid(i)}
       IN  IF valid_trend = {}
           THEN /\ qpc' = "error"
                /\ UNCHANGED <<q05, q95>>
           ELSE /\ q05' = nanquantile20(trend_full, valid_trend, 1)
                /\ q95' = nanquantile20(trend_full, valid_trend, 19)
                /\ qpc' = "quantiles"
    /\ UNCHANGED <<trend_full, valid_full, quant_full, quantFrame>>

\* the two assignments in the other order
QuantValueLowLast(i) ==
    IF mask_valid(i) /\ 20 * trend_full[i].v <= q05 THEN -1
    ELSE IF mask_valid(i) /\ 20 * trend_full[i].v >= q95 THEN 1
    ELSE 0

\* quant_full = zeros; quant_full[(trend <= q05) & mask_valid] = -1.0;
\* quant_full[(trend >= q95) & mask_valid] = 1.0
QuantValue(i) ==
    IF mask_valid(i) /\ 20 * trend_full[i].v >= q95 THEN 1
    ELSE IF mask_valid(i) /\ 20 * trend_full[i].v <= q05 THEN -1
    ELSE 0

quantile_map ==
    /\ qpc = "quantiles"
    /\ quant_full' = [i \in DOMAIN trend_full |-> QuantValue(i)]
    /\ qpc' = "done"
    /\ UNCHANGED <<trend_full, valid_full, q05, q95, quantFrame>>

TrendValues ==
    {[fin |-> FALSE, v |-> 0]} \cup {[fin |-> TRUE, v |-> n] : n \in 0..2}

InitQuant ==
    /\ qpc = "call"
    /\ \E n \in 1..MaxCells :
          /\ trend_full \in [1..n -> TrendValues]
          /\ valid_full \in [1..n -> BOOLEAN]
    /\ q05 = "none"
    /\ q95 = "none"
    /\ quant_full = <<>>

NextQuant == global_quantiles \/ quantile_map

SpecQuantInit == InitQuant /\ IdleFetch /\ IdleYaml /\ IdleBoot /\ IdleClim /\ IdlePixel /\ IdleAutocorr /\ IdleThr /\ IdleRename /\ IdleDrive /\ IdleSem /\ IdleTree /\ IdleMoran /\ IdleViz /\ IdleTile

SpecQuant == SpecQuantInit /\ [][NextQuant]_vars

\* C25 as stated: -1.0 at or below the 5% quantile, +1.0 at or above the
\* 95% quantile, 0.0 otherwise and outside the mask, also when the two
\* quantiles coincide.
C25_LowIsMinusOneHighIsPlusOne ==
    qpc = "done" =>
        \A i \in DOMAIN trend_full :
            IF mask_valid(i)
            THEN /\ 20 * trend_full[i].v <= q05 => quant_full[i] = -1
                 /\ 20 * trend_full[i].v >= q95 => quant_full[i] = 1
                 /\ (20 * trend_full[i].v > q05 /\ 20 * trend_full[i].v < q95) => quant_full[i] = 0
            ELSE quant_full[i] = 0

\* C25: inside the mask a finite trend at or above the 95% quantile gives
\* +1.0, any other at or below the 5% quantile gives -1.0, the rest 0.0;
\* outside the mask or with a non-finite trend the value is 0.0.
C25_HighTakesPrecedence ==
    qpc = "done" =>
        \A i \in DOMAIN trend_full :
            IF mask_valid(i)
            THEN /\ 20 * trend_full[i].v >= q95 => quant_full[i] = 1
                 /\ (20 * trend_full[i].v < q95 /\ 20 * trend_full[i].v <= q05) => quant_full[i] = -1
                 /\ (20 * trend_full[i].v > q05 /\ 20 * trend_full[i].v < q95) => quant_full[i] = 0
            ELSE quant_full[i] = 0

C25_Witness ==
    /\ qpc = "done"
    /\ q05 = q95
    /\ \E i, j \in DOMAIN trend_full :
          /\ mask_valid(i) /\ 20 * trend_full[i].v = q05 /\ quant_full[i] = 1
          /\ ~valid_full[j] /\ TrendIsFinite(trend_full[j])

(***************************************************************************)
(* viz.loader: _parse_node and collect_features_and_labels.  The two sets  *)
(* are Python objects handed down the recursion: "features or set()" keeps *)
(* the caller's object when it is non-empty and makes a new one when it is *)
(* empty or None, so a callee writes into the caller's set only if that    *)
(* set was non-empty at the call.                                          *)
(***************************************************************************)
\* data.get("label") of a node without the key
NoLabel == "None"

RECURSIVE _parse_node(_)
_parse_node(data) ==
    IF "leaf" \in DOMAIN data
    THEN [is_leaf |-> TRUE, suit |-> data.suit]
    ELSE [is_leaf |-> FALSE, feature |-> data.feature, threshold |-> data.threshold,
          yes |-> _parse_node(data.yes), no |-> _parse_node(data.no),
          label |-> data.label]

load_surrogate_tree ==
    /\ vpc = "call"
    /\ parsed_tree' = _parse_node(surrogate)
    /\ vpc' = "parsed"
    /\ UNCHANGED <<surrogate, collected, vizFrame>>

\* "if node.label": None and the empty string are false
Truthy(label) == label # NoLabel /\ label # ""

\* the content of the caller's set after a call that returned `result`
AfterCall(passed, result) == IF passed # {} THEN result ELSE passed

\* collect_features_and_labels(node, features, labels); an argument of None
\* is the empty set here, "x or set()" treats the two alike
RECURSIVE collect_features_and_labels(_, _, _)
collect_features_and_labels(node, features, labels) ==
    IF node.is_leaf
    THEN [features |-> features, labels |-> labels]
    ELSE LET f1 == features \cup {node.feature}
             l1 == IF Truthy(node.label) THEN labels \cup {node.label} ELSE labels
             r_yes == collect_features_and_labels(node.yes, f1, l1)
             f2 == AfterCall(f1, r_yes.features)
             l2 == AfterCall(l1, r_yes.labels)
             r_no == collect_features_and_labels(node.no, f2, l2)
         IN  [features |-> AfterCall(f2, r_no.features),
              labels |-> AfterCall(l2, r_no.labels)]

call_collect ==
    /\ vpc = "parsed"
    /\ collected' = collect_features_and_labels(parsed_tree, {}, {})
    /\ vpc' = "collected"
    /\ UNCHANGED <<surrogate, parsed_tree, vizFrame>>

\* the JSON document of a tree of the given shape
RECURSIVE JsonDoc(_, _, _, _)
JsonDoc(shape, feat, lab, n) ==
    IF shape.children_left[n] = -1
    THEN [leaf |-> n, suit |-> n]
    ELSE [feature |-> feat[n], threshold |-> 1, label |-> lab[n],
          yes |-> JsonDoc(shape, feat, lab, shape.children_right[n]),
          no |-> JsonDoc(shape, feat, lab, shape.children_left[n])]

FeatureChoices == {"ndvi", "ndwi"}

LabelChoices == {NoLabel, "", "NDVI", "NDWI"}

InitViz ==
    /\ vpc = "call"
    /\ \E shape \in Shapes :
          LET splits == {n \in DOMAIN shape.children_left : shape.children_left[n] # -1}
          IN  \E feat \in [splits -> FeatureChoices], lab \in [splits -> LabelChoices] :
                 surrogate = JsonDoc(shape, feat, lab, 0)
    /\ parsed_tree = NoDoc
    /\ collected = NoCollected

NextViz == load_surrogate_tree \/ call_collect

SpecVizInit == InitViz /\ IdleFetch /\ IdleYaml /\ IdleBoot /\ IdleClim /\ IdlePixel /\ IdleAutocorr /\ IdleThr /\ IdleRename /\ IdleDrive /\ IdleSem /\ IdleTree /\ IdleMoran /\ IdleQuant /\ IdleTile

SpecViz == SpecVizInit /\ [][NextViz]_vars

\* the split nodes anywhere in a parsed tree
RECURSIVE SplitNodes(_)
SplitNodes(node) ==
    IF node.is_leaf THEN {}
    ELSE {[feature |-> node.feature, label |-> node.label]}
             \cup SplitNodes(node.yes) \cup SplitNodes(node.no)

\* C26: called on the root, collect_features_and_labels returns exactly the
\* feature names of all split nodes and exactly their non-empty labels.
C26_AllFeaturesAndLabels ==
    vpc = "collected" =>
        /\ collected.features = {n.feature : n \in SplitNodes(parsed_tree)}
        /\ collected.labels = {n.label : n \in {m \in SplitNodes(parsed_tree) : Truthy(m.label)}}

(***************************************************************************)
(* The tile loops of build_month_climatology_tiled, build_prediction_map   *)
(* and process_tiles.  A tile is named by its offsets <<row_off, col_off>>;*)
(* pixels are <<row, col>> from 0.  The code takes the tiles row by row;   *)
(* here the loop body may take any tile that is left, so that every order  *)
(* of processing is a behaviour.                                           *)
(***************************************************************************)
MaxHeight == 3

MaxWidth == 6

MaxTileSize == 5

MaxTileCount == 6

\* "if n_good < 10: continue"
MIN_GOOD == 10

AllPixels == (0..(height - 1)) \X (0..(width - 1))

\* n_tiles = (n + tile - 1) // tile; for t in range(n_tiles): off = t * tile
OffsetsCeil(n, tile) == {t * tile : t \in 0..(((n + tile - 1) \div tile) - 1)}

\* for off in range(0, n, tile)
OffsetsRange(n, tile) == {off \in 0..(n - 1) : off % tile = 0}

Offsets(kind, n, tile) ==
    IF kind = "predict" THEN OffsetsRange(n, tile) ELSE OffsetsCeil(n, tile)

Tiles == Offsets(loop_kind, height, tile_size) \X Offsets(loop_kind, width, tile_size)

Min(a, b) == IF a <= b THEN a ELSE b

\* a window as high and wide as the tile size, whatever is left of the raster
TileWindowUnclipped(t) ==
    (t[1]..(t[1] + tile_size - 1)) \X (t[2]..(t[2] + tile_size - 1))

\* win_h = min(tile_size, height - row_off); win_w = min(tile_size, width - col_off);
\* Window(col_off, row_off, win_w, win_h)
TileWindow(t) ==
    (t[1]..(t[1] + Min(tile_size, height - t[1]) - 1))
        \X (t[2]..(t[2] + Min(tile_size, width - t[2]) - 1))

\* the input rasters: every pixel has its own value
SrcValue(p) == p[1] * width + p[2]

Unwritten == [state |-> "unwritten", v |-> 0, tile |-> <<0, 0>>]

\* what the loop body computes for the pixels of one tile: the builder and
\* the prediction map a value from the inputs at the pixel alone, the trend
\* statistics a local statistic of the pixel within the good pixels of the
\* tile, for the good pixels only and only if the tile has at least 10
Computed(t, window, old) ==
    IF loop_kind = "trend"
    THEN LET good == window \cap valid_px
         IN  IF Cardinality(good) < MIN_GOOD
             THEN [p \in {} |-> Unwritten]
             ELSE [p \in window |->
                      IF p \in good THEN [state |-> "value", v |-> SrcValue(p), tile |-> t]
                      ELSE IF p \in DOMAIN old THEN old[p] ELSE Unwritten]
    ELSE [p \in window |-> [state |-> "value", v |-> SrcValue(p), tile |-> <<0, 0>>]]

\* one pass of the loop body: read the window, compute, write the window
process_tile ==
    /\ lpc = "loop"
    /\ pending # {}
    /\ \E t \in pending :
          LET window == TileWindow(t)
              out == Computed(t, window, dst)
          IN  /\ dst' = [p \in AllPixels |-> IF p \in DOMAIN out THEN out[p] ELSE dst[p]]
              /\ written_by' = [p \in AllPixels |->
                                   IF p \in DOMAIN out THEN written_by[p] \cup {t}
                                   ELSE written_by[p]]
              /\ stray' = stray \cup (DOMAIN out \ AllPixels)
              /\ pending' = pending \ {t}
    /\ UNCHANGED <<lpc, loop_kind, height, width, tile_size, valid_px, tileFrame>>

\* the loops are exhausted
loop_end ==
    /\ lpc = "loop"
    /\ pending = {}
    /\ lpc' = "done"
    /\ UNCHANGED <<loop_kind, height, width, tile_size, valid_px, pending, dst,
                   written_by, stray, tileFrame>>

InitTile ==
    /\ lpc = "loop"
    /\ loop_kind \in {"builder", "predict", "trend"}
    /\ height \in 1..MaxHeight
    /\ width \in 1..MaxWidth
    /\ tile_size \in 1..MaxTileSize
    /\ Cardinality(Tiles) <= MaxTileCount
    /\ valid_px \in {AllPixels, AllPixels \ {<<0, 0>>}}
    /\ loop_kind # "trend" => valid_px = AllPixels
    /\ pending = Tiles
    /\ dst = [p \in AllPixels |-> Unwritten]
    /\ written_by = [p \in AllPixels |-> {}]
    /\ stray = {}

NextTile == process_tile \/ loop_end

SpecTileInit == InitTile /\ IdleFetch /\ IdleYaml /\ IdleBoot /\ IdleClim /\ IdlePixel /\ IdleAutocorr /\ IdleThr /\ IdleRename /\ IdleDrive /\ IdleSem /\ IdleTree /\ IdleMoran /\ IdleQuant /\ IdleViz

SpecTile == SpecTileInit /\ [][NextTile]_vars

\* the tile a pixel belongs to when the raster is cut every tile_size pixels
TileOf(p) == <<p[1] - (p[1] % tile_size), p[2] - (p[2] % tile_size)>>

\* the output that does not depend on any order: pixel by pixel
Expected ==
    [p \in AllPixels |->
        IF loop_kind = "trend"
        THEN LET cell == {q \in AllPixels : TileOf(q) = TileOf(p)}
             IN  IF p \in valid_px /\ Cardinality(cell \cap valid_px) >= MIN_GOOD
                 THEN [state |-> "value", v |-> SrcValue(p), tile |-> TileOf(p)]
                 ELSE Unwritten
        ELSE [state |-> "value", v |-> SrcValue(p), tile |-> <<0, 0>>]]

\* C21: the tile windows partition the raster, each tile writes only the
\* pixels of its own window, and when all tiles are done the output is the
\* same whatever the order in which they were processed.
C21_TilesPartitionAndOrderIndependent ==
    lpc # "idle" =>
        /\ \A t \in Tiles : TileWindow(t) # {} /\ TileWindow(t) \subseteq AllPixels
        /\ \A p \in AllPixels : Cardinality({t \in Tiles : p \in TileWindow(t)}) = 1
        /\ stray = {}
        /\ \A p \in AllPixels : \A t \in written_by[p] : p \in TileWindow(t)
        /\ lpc = "done" => dst = Expected

C21_Witness ==
    /\ lpc = "done"
    /\ loop_kind = "trend"
    /\ height % tile_size # 0
    /\ width % tile_size # 0
    /\ Cardinality(Tiles) >= 2
    /\ \E p, q \in AllPixels : dst[p].state = "value" /\ dst[q] = Unwritten

=============================================================================
